---------------------------- MODULE Spec2Model ----------------------------
(***************************************************************************)
(* Static dependency analysis of MAAP: the C analysis of                   *)
(* agents/c_ast_utils.py (CLoopVisitor, CLoopBodyAnalyzer,                 *)
(* VariableUsageVisitor, SectionVisitor, analyze_c_code_ast) and the       *)
(* Python analysis of agents/ast_utils.py (LoopVisitor, analyze_code_ast). *)
(*                                                                         *)
(* A syntax tree node is a record of one shape,                            *)
(*   [kind, name, op, line, end, kids]                                     *)
(* kind is the node class of pycparser / ast, kids the children in the     *)
(* order the library's generic_visit walks them.  A child that is None in  *)
(* the library is a node of kind "None", which generic_visit skips.        *)
(* Program text (identifiers, operators) is a sequence of one-character    *)
(* strings, so that substring tests, joins and replacements are computed.  *)
(***************************************************************************)
EXTENDS Integers, Sequences, FiniteSets, TLC

VARIABLES
    lang,              \* state["language"]: "c" or "python"
    source,            \* the source unit handed to the analysis
    hashseed,          \* the interpreter's string hash seed of this process
    pc,                \* position inside the analysis entry point
    result,            \* what the entry point returned (or raised)
    prev_result,       \* what the previous run on this source returned
    loops,             \* visitor.loops
    current_depth,     \* CLoopVisitor.current_depth
    sections,          \* SectionVisitor.sections
    todo,              \* Compound nodes SectionVisitor has still to visit
    current_batch,     \* visit_Compound: the stmt_info list of the block
    i,                 \* visit_Compound: outer index (0-based, as in the code)
    j,                 \* visit_Compound: inner index (0-based)
    group,             \* visit_Compound: the candidate group
    combined_read,     \* visit_Compound: union of the group's read sets
    combined_written,  \* visit_Compound: union of the group's written sets
    original,          \* original.c as the validation script meets it
    parallel,          \* parallel.c as the validation script meets it
    vpc,               \* position inside the validation script
    output,            \* what the validation script has printed so far
    current_node,      \* the workflow node that runs next ("idle": no workflow)
    agent_state,       \* AgentState: the keys that are set, with their values
    trace,             \* the node calls of this workflow run, with their inputs
    mpc,               \* position inside main()
    fs,                \* the files main() touches
    code               \* preprocess_c_code: the text being rewritten

vars == <<lang, source, hashseed, pc, result, prev_result, loops, current_depth,
          sections, todo, current_batch, i, j, group, combined_read,
          combined_written, original, parallel, vpc, output, current_node,
          agent_state, trace, mpc, fs, code>>

\* the validation script's own state
ValidatorVars == <<original, parallel, vpc, output>>

\* the workflow's and main()'s own state
WorkflowVars == <<current_node, agent_state, trace, mpc, fs>>

\* no file of main() exists
NoFiles == [output_path |-> "absent", failed_path |-> "absent", temp_dir |-> FALSE]

\* no workflow is running
WorkflowIdle ==
    /\ current_node = "idle"
    /\ agent_state = <<>>
    /\ trace = <<>>
    /\ mpc = "idle"
    /\ fs = NoFiles

\* no validation script is running
ValidatorIdle ==
    /\ original = <<>>
    /\ parallel = <<>>
    /\ vpc = "idle"
    /\ output = <<>>

-----------------------------------------------------------------------------
(* Bounds of the model *)

\* longest statement block of a unit whose grouping is examined
MaxStmts == 3

-----------------------------------------------------------------------------
(* Syntax trees *)

Node(kind, name, op, kids) ==
    [kind |-> kind, name |-> name, op |-> op, line |-> 0, end |-> 0, kids |-> kids]

None == Node("None", <<>>, <<>>, <<>>)
ID(n) == Node("ID", n, <<>>, <<>>)
Constant(v) == Node("Constant", v, <<>>, <<>>)
BinaryOp(op, l, r) == Node("BinaryOp", <<>>, op, <<l, r>>)
UnaryOp(op, e) == Node("UnaryOp", <<>>, op, <<e>>)
ArrayRef(a, s) == Node("ArrayRef", <<>>, <<>>, <<a, s>>)
ExprList(es) == Node("ExprList", <<>>, <<>>, es)
FuncCall(f, args) == Node("FuncCall", <<>>, <<>>, <<ID(f), args>>)
Assignment(op, lv, rv) == Node("Assignment", <<>>, op, <<lv, rv>>)
Decl(n, init) == Node("Decl", n, <<>>, <<init>>)
DeclList(ds) == Node("DeclList", <<>>, <<>>, ds)
Compound(items) == Node("Compound", <<>>, <<>>, items)
For(init, cond, next, stmt) == Node("For", <<>>, <<>>, <<init, cond, next, stmt>>)
While(cond, stmt) == Node("While", <<>>, <<>>, <<cond, stmt>>)

\* operators, as text
OpAssign == <<"=">>
OpPlusEq == <<"+", "=">>
OpTimesEq == <<"*", "=">>
OpPlus == <<"+">>
OpLess == <<"<">>
OpPostInc == <<"p", "+", "+">>
OpPostDec == <<"p", "-", "-">>
OpPreInc == <<"+", "+", "p">>
OpPreDec == <<"-", "-", "p">>

\* c_ast.Node.children(): the children that are not None, in order
Children(node) == SelectSeq(node.kids, LAMBDA c : c.kind # "None")

RECURSIVE Height(_)
RECURSIVE HeightSeq(_)
\* Source lines a statement takes, one statement per line, braces as K&R:
\* "for (...) {" / body / "}".
Height(stmt) ==
    CASE stmt.kind \in {"For", "While"} ->
            IF stmt.kids[Len(stmt.kids)].kind = "Compound"
            THEN 2 + HeightSeq(stmt.kids[Len(stmt.kids)].kids)
            ELSE 1 + Height(stmt.kids[Len(stmt.kids)])
      [] stmt.kind = "Compound" -> 2 + HeightSeq(stmt.kids)
      [] OTHER -> 1
HeightSeq(stmts) ==
    IF stmts = <<>> THEN 0 ELSE Height(Head(stmts)) + HeightSeq(Tail(stmts))

RECURSIVE Place(_, _)
RECURSIVE PlaceSeq(_, _)
\* The parser's coord.line of every statement of the unit.
Place(stmt, l) ==
    CASE stmt.kind \in {"For", "While"} ->
            LET n == Len(stmt.kids)
                body == stmt.kids[n]
            IN [stmt EXCEPT !.line = l,
                            !.end = l + Height(stmt) - 1,
                            !.kids[n] = IF body.kind = "Compound"
                                        THEN [body EXCEPT !.line = l,
                                                          !.kids = PlaceSeq(body.kids, l + 1)]
                                        ELSE Place(body, l + 1)]
      [] stmt.kind = "Compound" ->
            [stmt EXCEPT !.line = l, !.end = l + Height(stmt) - 1,
                         !.kids = PlaceSeq(stmt.kids, l + 1)]
      [] OTHER -> [stmt EXCEPT !.line = l, !.end = l]
PlaceSeq(stmts, l) ==
    IF stmts = <<>> THEN <<>>
    ELSE <<Place(Head(stmts), l)>> \o PlaceSeq(Tail(stmts), l + Height(Head(stmts)))

\* The body of "void f() {" on line 1: its statements start on line 2.
FuncBody(stmts) == [Compound(PlaceSeq(stmts, 2)) EXCEPT !.line = 1]

-----------------------------------------------------------------------------
(* VariableUsageVisitor *)

NoUsage == [read |-> {}, written |-> {}, func_calls |-> {}]
UsageUnion(a, b) ==
    [read |-> a.read \cup b.read, written |-> a.written \cup b.written,
     func_calls |-> a.func_calls \cup b.func_calls]

RECURSIVE VU_visit(_)
RECURSIVE VU_analyze_lvalue(_)
RECURSIVE VU_generic_visit(_)

VU_generic_visit(node) ==
    LET cs == Children(node)
    IN [read |-> UNION {VU_visit(cs[k]).read : k \in DOMAIN cs},
        written |-> UNION {VU_visit(cs[k]).written : k \in DOMAIN cs},
        func_calls |-> UNION {VU_visit(cs[k]).func_calls : k \in DOMAIN cs}]

VU_analyze_lvalue(node) ==
    CASE node.kind = "ID" -> [NoUsage EXCEPT !.written = {node.name}]
      [] node.kind = "ArrayRef" ->
            UsageUnion(UsageUnion(VU_visit(node.kids[2]), VU_visit(node.kids[1])),
                       IF node.kids[1].kind = "ID"
                       THEN [NoUsage EXCEPT !.written = {node.kids[1].name}]
                       ELSE NoUsage)
      [] node.kind = "StructRef" -> VU_visit(node.kids[1])
      [] OTHER -> NoUsage

VU_visit(node) ==
    CASE node.kind = "Assignment" ->
            UsageUnion(VU_analyze_lvalue(node.kids[1]), VU_visit(node.kids[2]))
      [] node.kind = "UnaryOp" ->
            IF node.op \in {OpPostInc, OpPostDec, OpPreInc, OpPreDec}
            THEN UsageUnion(VU_analyze_lvalue(node.kids[1]), VU_visit(node.kids[1]))
            ELSE VU_generic_visit(node)
      [] node.kind = "ID" -> [NoUsage EXCEPT !.read = {node.name}]
      [] node.kind = "FuncCall" ->
            UsageUnion(IF node.kids[1].kind = "ID"
                       THEN [NoUsage EXCEPT !.func_calls = {node.kids[1].name}]
                       ELSE NoUsage,
                       IF node.kids[2].kind # "None" THEN VU_visit(node.kids[2]) ELSE NoUsage)
      [] OTHER -> VU_generic_visit(node)

\* visit_Compound: the stmt_info of one block item
StmtInfo(stmt) ==
    LET usage == VU_visit(stmt)
    IN [read |-> usage.read, written |-> usage.written, calls |-> usage.func_calls,
        line |-> stmt.line]


-----------------------------------------------------------------------------
(* SectionVisitor.visit_Compound *)

RECURSIVE TopCompounds(_)
RECURSIVE TopCompoundsSeq(_)
\* generic_visit below a node: the Compound nodes NodeVisitor.visit reaches
\* first, in the order it reaches them (a Compound is handed to
\* visit_Compound, any other node is walked through).
TopCompounds(node) ==
    IF node.kind = "Compound" THEN <<node>> ELSE TopCompoundsSeq(Children(node))
TopCompoundsSeq(nodes) ==
    IF nodes = <<>> THEN <<>>
    ELSE TopCompounds(Head(nodes)) \o TopCompoundsSeq(Tail(nodes))

\* the tests without the write-after-write test of lines 392-394
IsIndependent_NoWAW(c_written, c_read, next_stmt) ==
    /\ c_written \cap next_stmt.read = {}
    /\ c_read \cap next_stmt.written = {}

\* the tests without the write-after-read test of lines 389-391
IsIndependent_NoWAR(c_written, c_read, next_stmt) ==
    /\ c_written \cap next_stmt.read = {}
    /\ c_written \cap next_stmt.written = {}

\* the tests without the read-after-write test of lines 386-388
IsIndependent_NoRAW(c_written, c_read, next_stmt) ==
    /\ c_read \cap next_stmt.written = {}
    /\ c_written \cap next_stmt.written = {}

\* lines 384-394: the three disjointness tests against the running unions
IsIndependent(c_written, c_read, next_stmt) ==
    /\ c_written \cap next_stmt.read = {}
    /\ c_read \cap next_stmt.written = {}
    /\ c_written \cap next_stmt.written = {}

\* line 408: the members that write something or call something
Meaningful(g) == SelectSeq(g, LAMBDA s : s.written # {} \/ s.calls # {})

\* lines 410-414
SectionRecord(g) ==
    [start_line |-> g[1].line, end_line |-> g[Len(g)].line, count |-> Len(g)]

\* the group is kept as soon as one member is meaningful
Emit_OneMeaningful(secs, g) ==
    IF Len(g) > 1 /\ Len(Meaningful(g)) > 0 THEN Append(secs, SectionRecord(g)) ELSE secs

\* lines 404-414: what closing the candidate group appends to self.sections
Emit(secs, g) ==
    IF Len(g) > 1 /\ Len(Meaningful(g)) > 1 THEN Append(secs, SectionRecord(g)) ELSE secs

\* the scan resumes one statement after the one that closed the group
NextOuter_SkipConflict(g, ii, jj) == IF Len(g) > 1 THEN jj + 1 ELSE ii + 1

\* lines 415-417: where the outer scan resumes
NextOuter(g, ii, jj) == IF Len(g) > 1 THEN jj ELSE ii + 1

ScanVars == <<current_batch, i, j, group, combined_read, combined_written>>
RunVars ==
    <<lang, source, hashseed, result, prev_result, loops, current_depth, ValidatorVars,
      WorkflowVars, code>>

\* lines 334-352: the visitor reaches a Compound; an empty block returns at once
VisitCompound ==
    /\ pc = "sections"
    /\ todo # <<>>
    /\ LET node == Head(todo)
       IN IF node.kids = <<>>
          THEN /\ todo' = Tail(todo)
               /\ pc' = "sections"
               /\ UNCHANGED ScanVars
          ELSE /\ current_batch' = [k \in DOMAIN node.kids |-> StmtInfo(node.kids[k])]
               /\ i' = 0
               /\ j' = 0
               /\ group' = <<>>
               /\ combined_read' = {}
               /\ combined_written' = {}
               /\ pc' = "outer"
               /\ UNCHANGED todo
    /\ UNCHANGED <<RunVars, sections>>

\* lines 359-365: the outer test holds, a candidate group starts at i
StartGroup ==
    /\ pc = "outer"
    /\ i < Len(current_batch) - 1
    /\ group' = <<current_batch[i + 1]>>
    /\ combined_read' = current_batch[i + 1].read
    /\ combined_written' = current_batch[i + 1].written
    /\ j' = i + 1
    /\ pc' = "inner"
    /\ UNCHANGED <<RunVars, sections, todo, current_batch, i>>

\* lines 366-396: the inner test holds and next_stmt is independent
CanExtend ==
    /\ j < Len(current_batch)
    /\ IsIndependent(combined_written, combined_read, current_batch[j + 1])

\* lines 396-400: next_stmt joins the group
ExtendGroup ==
    /\ pc = "inner"
    /\ CanExtend
    /\ group' = Append(group, current_batch[j + 1])
    /\ combined_read' = combined_read \cup current_batch[j + 1].read
    /\ combined_written' = combined_written \cup current_batch[j + 1].written
    /\ j' = j + 1
    /\ UNCHANGED <<RunVars, sections, todo, current_batch, i, pc>>

\* lines 401-417: the inner loop ends (break, or j ran off the block)
CloseGroup ==
    /\ pc = "inner"
    /\ ~CanExtend
    /\ sections' = Emit(sections, group)
    /\ i' = NextOuter(group, i, j)
    /\ pc' = "outer"
    /\ UNCHANGED <<RunVars, todo, current_batch, j, group, combined_read,
                   combined_written>>

\* line 419: the outer loop is over, generic_visit walks the block's items
GenericVisit ==
    /\ pc = "outer"
    /\ ~(i < Len(current_batch) - 1)
    /\ todo' = TopCompoundsSeq(Children(Head(todo))) \o Tail(todo)
    /\ pc' = "sections"
    /\ UNCHANGED <<RunVars, sections, ScanVars>>

\* line 211: section_visitor.visit(ast) returns
SectionsDone ==
    /\ pc = "sections"
    /\ todo = <<>>
    /\ pc' = "assemble"
    /\ UNCHANGED <<RunVars, sections, todo, ScanVars>>

NextSections ==
    \/ VisitCompound
    \/ StartGroup
    \/ ExtendGroup
    \/ CloseGroup
    \/ GenericVisit
    \/ SectionsDone

-----------------------------------------------------------------------------
(* Text, and the order in which a set is listed *)

\* number of interpreter hash seeds (PYTHONHASHSEED values) examined
NumSeeds == 2

HashSeeds == 0..(NumSeeds - 1)

Alphabet ==
    <<"a", "b", "c", "d", "e", "f", "g", "h", "i", "j", "k", "l", "m", "n", "o", "p",
      "q", "r", "s", "t", "u", "v", "w", "x", "y", "z", "_", "+", "-", "*", "=", "<",
      "|", "&", "^", " ", ",", "0", "1", "2">>

Code(ch) == CHOOSE k \in DOMAIN Alphabet : Alphabet[k] = ch

\* Python's  v in s  on strings
IsSubstring(v, s) ==
    \E k \in 0..(Len(s) - Len(v)) : SubSeq(s, k + 1, k + Len(v)) = v

RECURSIVE Join(_, _)
\* Python's  sep.join(list)
Join(list, sep) ==
    IF list = <<>> THEN <<>>
    ELSE IF Len(list) = 1 THEN list[1]
    ELSE list[1] \o sep \o Join(Tail(list), sep)

\* Python's  text.replace(ch, '')
Remove(text, ch) == SelectSeq(text, LAMBDA c : c # ch)

RECURSIVE LexLess(_, _)
LexLess(s, t) ==
    IF s = <<>> THEN t # <<>>
    ELSE IF t = <<>> THEN FALSE
    ELSE IF Code(Head(s)) # Code(Head(t)) THEN Code(Head(s)) < Code(Head(t))
    ELSE LexLess(Tail(s), Tail(t))

RECURSIVE StrHash(_, _)
\* hash(str) of a process whose hash seed is seed, reduced to the 8 slots of
\* a small set's table: the seed decides it, the text alone does not
StrHash(seed, s) ==
    IF s = <<>> THEN seed % 8
    ELSE (StrHash(seed, SubSeq(s, 1, Len(s) - 1)) * (2 * seed + 3) + Code(s[Len(s)])) % 8

\* slot order of a set of str; names in one slot in text order
NameBefore(seed, x, y) ==
    \/ StrHash(seed, x) < StrHash(seed, y)
    \/ StrHash(seed, x) = StrHash(seed, y) /\ LexLess(x, y)

RECURSIVE ListOfNames(_, _)
\* list(a set of str)
ListOfNames(S, seed) ==
    IF S = {} THEN <<>>
    ELSE LET x == CHOOSE x \in S : \A y \in S \ {x} : NameBefore(seed, x, y)
         IN <<x>> \o ListOfNames(S \ {x}, seed)

PairText(t) == t[1] \o <<" ">> \o t[2]

RECURSIVE ListOfPairs(_, _)
\* list(a set of (str, str) tuples)
ListOfPairs(S, seed) ==
    IF S = {} THEN <<>>
    ELSE LET x == CHOOSE x \in S :
                    \A y \in S \ {x} : NameBefore(seed, PairText(x), PairText(y))
         IN <<x>> \o ListOfPairs(S \ {x}, seed)

SeqToSet(q) == {q[k] : k \in DOMAIN q}

-----------------------------------------------------------------------------
(* CLoopBodyAnalyzer *)

LBA_init ==
    [potential_reductions |-> {}, local_vars |-> {}, shared_vars |-> {},
     all_vars_read |-> {}, all_vars_written |-> {},
     has_function_calls |-> FALSE, has_array_access |-> FALSE]

\* line 151
ReductionOps ==
    {<<"+", "=">>, <<"-", "=">>, <<"*", "=">>, <<"|", "=">>, <<"&", "=">>, <<"^", "=">>}

\* lines 146-157: what visit_Assignment records before it walks the children
LBA_assignment(node, st) ==
    IF node.kids[1].kind = "ID"
    THEN LET var_name == node.kids[1].name
             rvalue == node.kids[2]
             st1 == [st EXCEPT !.all_vars_written = @ \cup {var_name}]
         IN IF node.op \in ReductionOps
            THEN [st1 EXCEPT !.potential_reductions = @ \cup {<<var_name, node.op>>}]
            ELSE IF /\ node.op = OpAssign
                    /\ rvalue.kind = "BinaryOp"
                    /\ rvalue.kids[1].kind = "ID"
                    /\ rvalue.kids[1].name = var_name
                 THEN [st1 EXCEPT !.potential_reductions = @ \cup {<<var_name, rvalue.op>>}]
                 ELSE st1
    ELSE st

\* lines 167-172
LBA_id(node, st) ==
    [st EXCEPT !.all_vars_read = @ \cup {node.name},
               !.shared_vars = IF node.name \notin st.local_vars
                               THEN @ \cup {node.name} ELSE @]

RECURSIVE LBA_visit(_, _)
RECURSIVE LBA_visit_seq(_, _)

\* lines 144-182, node by node in generic_visit's order
LBA_visit(node, st) ==
    CASE node.kind = "Assignment" ->
            LBA_visit_seq(Children(node), LBA_assignment(node, st))
      [] node.kind = "Decl" ->
            LBA_visit_seq(Children(node),
                          IF node.name # <<>>
                          THEN [st EXCEPT !.local_vars = @ \cup {node.name}] ELSE st)
      [] node.kind = "ID" -> LBA_id(node, st)
      [] node.kind = "FuncCall" ->
            LBA_visit_seq(Children(node), [st EXCEPT !.has_function_calls = TRUE])
      [] node.kind = "ArrayRef" ->
            LBA_visit_seq(Children(node), [st EXCEPT !.has_array_access = TRUE])
      [] OTHER -> LBA_visit_seq(Children(node), st)

LBA_visit_seq(nodes, st) ==
    IF nodes = <<>> THEN st ELSE LBA_visit_seq(Tail(nodes), LBA_visit(Head(nodes), st))

-----------------------------------------------------------------------------
(* CLoopVisitor *)

\* lines 104-114; None is the empty text
ExtractInitVar(init_node) ==
    CASE init_node.kind = "Assignment" ->
            IF init_node.kids[1].kind = "ID" THEN init_node.kids[1].name ELSE <<>>
      [] init_node.kind = "DeclList" ->
            IF Len(init_node.kids) > 0 THEN init_node.kids[1].name ELSE <<>>
      [] init_node.kind = "Decl" -> init_node.name
      [] OTHER -> <<>>

RECURSIVE CGen(_)
\* c_generator.CGenerator().visit on the expressions of a for header
CGen(node) ==
    CASE node.kind \in {"ID", "Constant"} -> node.name
      [] node.kind = "BinaryOp" ->
            CGen(node.kids[1]) \o <<" ">> \o node.op \o <<" ">> \o CGen(node.kids[2])
      [] node.kind = "Assignment" ->
            CGen(node.kids[1]) \o <<" ">> \o node.op \o <<" ">> \o CGen(node.kids[2])
      [] node.kind = "UnaryOp" ->
            IF Head(node.op) = "p"
            THEN CGen(node.kids[1]) \o Tail(node.op)
            ELSE Remove(node.op, "p") \o CGen(node.kids[1])
      [] OTHER -> <<>>

\* lines 116-122
NodeToString(node) == CGen(node)

\* lines 62-97: the loop_info of one For node
LoopInfo(node, depth, seed) ==
    LET init == node.kids[1]
        cond == node.kids[2]
        next == node.kids[3]
        stmt == node.kids[4]
        body == LBA_visit(stmt, LBA_init)
        has_stmt == stmt.kind # "None"
    IN [type |-> "for_loop",
        start_line |-> node.line,
        is_nested |-> depth > 0,
        depth |-> depth,
        init_var |-> IF init.kind # "None" THEN ExtractInitVar(init) ELSE <<>>,
        condition |-> IF cond.kind # "None" THEN NodeToString(cond) ELSE <<>>,
        increment |-> IF next.kind # "None" THEN NodeToString(next) ELSE <<>>,
        potential_reductions |->
            IF has_stmt THEN ListOfPairs(body.potential_reductions, seed) ELSE <<>>,
        potential_private_vars |->
            IF has_stmt THEN ListOfNames(body.local_vars, seed) ELSE <<>>,
        potential_shared_vars |->
            IF has_stmt THEN ListOfNames(body.shared_vars, seed) ELSE <<>>,
        has_function_calls |-> has_stmt /\ body.has_function_calls,
        has_array_access |-> has_stmt /\ body.has_array_access]

\* line 102
CLV_leave(st) == [st EXCEPT !.current_depth = @ - 1]

RECURSIVE CLV_visit(_, _, _)
RECURSIVE CLV_visit_seq(_, _, _)

\* CLoopVisitor.visit: visit_For on a For node (lines 60-102), generic_visit
\* on any other
CLV_visit(node, st, seed) ==
    IF node.kind = "For"
    THEN LET st1 == [loops |-> Append(st.loops, LoopInfo(node, st.current_depth, seed)),
                     current_depth |-> st.current_depth + 1]
         IN CLV_leave(CLV_visit_seq(Children(node), st1, seed))
    ELSE CLV_visit_seq(Children(node), st, seed)

\* the children in order; the test on st1 makes TLC evaluate the state a
\* child leaves before the walk goes on to the next child
CLV_visit_seq(nodes, st, seed) ==
    IF nodes = <<>> THEN st
    ELSE LET st1 == CLV_visit(Head(nodes), st, seed)
         IN IF st1.current_depth < 0 THEN st1
            ELSE CLV_visit_seq(Tail(nodes), st1, seed)

-----------------------------------------------------------------------------
(* LoopVisitor (Python) *)

PyModule(body) == Node("PyModule", <<>>, <<>>, body)
PyFor(target, iter, body) == Node("PyFor", <<>>, <<>>, <<target, iter>> \o body)
PyWhile(test, body) == Node("PyWhile", <<>>, <<>>, <<test>> \o body)
PyName(id) == Node("PyName", id, <<>>, <<>>)
PyTuple(elts) == Node("PyTuple", <<>>, <<>>, elts)
PyAttribute(value, attr) == Node("PyAttribute", attr, <<>>, <<value>>)
PyPass == Node("PyPass", <<>>, <<>>, <<>>)

\* the statements of a Python compound statement (after target/iter or test)
PyBody(stmt) ==
    CASE stmt.kind = "PyFor" -> SubSeq(stmt.kids, 3, Len(stmt.kids))
      [] stmt.kind = "PyWhile" -> SubSeq(stmt.kids, 2, Len(stmt.kids))
      [] OTHER -> <<>>

RECURSIVE PyHeight(_)
RECURSIVE PyHeightSeq(_)
PyHeight(stmt) == 1 + PyHeightSeq(PyBody(stmt))
PyHeightSeq(stmts) ==
    IF stmts = <<>> THEN 0 ELSE PyHeight(Head(stmts)) + PyHeightSeq(Tail(stmts))

RECURSIVE PyPlace(_, _)
RECURSIVE PyPlaceSeq(_, _)
\* lineno and end_lineno of every statement, one statement per line
PyPlace(stmt, l) ==
    LET head == SubSeq(stmt.kids, 1, Len(stmt.kids) - Len(PyBody(stmt)))
    IN [stmt EXCEPT !.line = l,
                    !.end = l + PyHeight(stmt) - 1,
                    !.kids = head \o PyPlaceSeq(PyBody(stmt), l + 1)]
PyPlaceSeq(stmts, l) ==
    IF stmts = <<>> THEN <<>>
    ELSE <<PyPlace(Head(stmts), l)>> \o PyPlaceSeq(Tail(stmts), l + PyHeight(Head(stmts)))

PyUnit(stmts) == PyModule(PyPlaceSeq(stmts, 1))

ComplexTarget == <<"c", "o", "m", "p", "l", "e", "x", "_", "t", "a", "r", "g", "e", "t">>

\* lines 10-15
TargetVar(target) ==
    CASE target.kind = "PyName" -> target.name
      [] target.kind = "PyTuple" ->
            Join([k \in DOMAIN SelectSeq(target.kids, LAMBDA e : e.kind = "PyName") |->
                      SelectSeq(target.kids, LAMBDA e : e.kind = "PyName")[k].name],
                 <<",", " ">>)
      [] OTHER -> ComplexTarget

\* lines 18-27
PyLoopInfo(node) ==
    [type |-> "for_loop", target_var |-> TargetVar(node.kids[1]),
     start_line |-> node.line, end_line |-> node.end, is_nested |-> FALSE]

RECURSIVE PLV_visit(_, _)
RECURSIVE PLV_visit_seq(_, _)

\* LoopVisitor.visit: visit_For on a For node (lines 7-30), generic_visit on
\* any other
PLV_visit(node, ls) ==
    IF node.kind = "PyFor"
    THEN PLV_visit_seq(node.kids, Append(ls, PyLoopInfo(node)))
    ELSE PLV_visit_seq(node.kids, ls)

PLV_visit_seq(nodes, ls) ==
    IF nodes = <<>> THEN ls ELSE PLV_visit_seq(Tail(nodes), PLV_visit(Head(nodes), ls))

-----------------------------------------------------------------------------
(* Units whose statement blocks the grouper is examined on *)

GroupVars == {<<"a">>, <<"b">>, <<"c">>}

PlainAssignments ==
    {Assignment(OpAssign, ID(v), e) :
        v \in GroupVars,
        e \in {Constant(<<"1">>), ID(<<"a">>), BinaryOp(OpPlus, ID(<<"a">>), ID(<<"b">>))}}

OtherStmts ==
    { Assignment(OpPlusEq, ID(<<"c">>), ID(<<"a">>)),
      UnaryOp(OpPostInc, ID(<<"a">>)),
      FuncCall(<<"f">>, ExprList(<<ID(<<"a">>)>>)),
      FuncCall(<<"g">>, None),
      Decl(<<"d">>, ID(<<"a">>)),
      Decl(<<"d">>, None),
      ID(<<"c">>),
      Assignment(OpAssign, ArrayRef(ID(<<"x">>), ID(<<"a">>)), ID(<<"b">>)),
      Assignment(OpAssign, ArrayRef(ArrayRef(ID(<<"x">>), ID(<<"a">>)), ID(<<"b">>)),
                 Constant(<<"1">>)),
      While(ID(<<"c">>), Compound(<<Assignment(OpAssign, ID(<<"a">>), Constant(<<"1">>)),
                                    Assignment(OpAssign, ID(<<"b">>), Constant(<<"1">>))>>)) }

GroupStmts == PlainAssignments \cup OtherStmts

GroupBlocks == UNION {[1..n -> GroupStmts] : n \in 1..MaxStmts}

NoResult == [kind |-> "none", message |-> "", lines |-> <<>>]

\* section_visitor.visit(ast) is about to run on a parsed C unit
InitSections ==
    /\ lang = "c"
    /\ \E b \in GroupBlocks :
          source = [defect |-> "none", diag |-> "", nesting |-> "shallow", ast |-> FuncBody(b)]
    /\ hashseed = 0
    /\ pc = "sections"
    /\ result = NoResult
    /\ prev_result = NoResult
    /\ loops = CLV_visit(source.ast, [loops |-> <<>>, current_depth |-> 0], hashseed).loops
    /\ current_depth = 0
    /\ sections = <<>>
    /\ todo = TopCompounds(source.ast)
    /\ current_batch = <<>>
    /\ i = 0
    /\ j = 0
    /\ group = <<>>
    /\ combined_read = {}
    /\ combined_written = {}
    /\ ValidatorIdle
    /\ WorkflowIdle
    /\ code = <<>>

SpecSections == InitSections /\ [][NextSections]_vars


-----------------------------------------------------------------------------
(* The analysis entry points: analyze_c_code_ast and analyze_code_ast *)

\* base class of each exception class the parsers and visitors raise
ExcBase(exc) ==
    CASE exc = "IndentationError" -> "SyntaxError"
      [] exc = "UnicodeEncodeError" -> "ValueError"
      [] exc = "RecursionError" -> "RuntimeError"
      [] exc = "ParseError" -> "Exception"
      [] exc \in {"SyntaxError", "ValueError", "RuntimeError", "MemoryError", "error"} ->
            "Exception"
      [] OTHER -> "BaseException"

RECURSIVE IsInstance(_, _)
\* an  except cls:  clause catches exc
IsInstance(exc, cls) ==
    \/ exc = cls
    \/ exc # "BaseException" /\ IsInstance(ExcBase(exc), cls)

\* ast.parse: what it raises on the unit ("ok": it returns the tree).  A NUL
\* byte is a SyntaxError on the interpreter measured (3.11.6); a sum nested
\* beyond the parser's depth is a RecursionError, a chain of unary minus
\* beyond it a MemoryError.
PyParseRaises(src) ==
    CASE src.defect = "syntax" -> {"SyntaxError"}
      [] src.defect = "indent" -> {"IndentationError"}
      [] src.defect = "nul_byte" -> {"SyntaxError"}
      [] src.defect = "surrogate" -> {"UnicodeEncodeError"}
      [] src.defect = "none" /\ src.nesting = "too_deep" -> {"RecursionError"}
      [] src.defect = "none" /\ src.nesting = "too_deep_unary" -> {"MemoryError"}
      [] OTHER -> {"ok"}

\* c_parser.CParser().parse: what it raises on the preprocessed unit
CParseRaises(src) ==
    IF src.defect \in {"syntax", "nul_byte"} THEN {"ParseError"} ELSE {"ok"}

Returned(kind, message, lines) == [kind |-> kind, message |-> message, lines |-> lines]

Raised(exc) == Returned("raised", exc, <<>>)

\* one line of a textual report: what it says (kind), of which loop or
\* section, with which numbers and which texts, in the order printed
Line(kind, n, nums, items) == [kind |-> kind, loop |-> n, nums |-> nums, items |-> items]

Unknown == <<"u", "n", "k", "n", "o", "w", "n">>

OrUnknown(text) == IF text # <<>> THEN text ELSE Unknown

\* lines 240-243: the shared names the report lists for a loop
SharedListed(loop) ==
    SelectSeq(loop.potential_shared_vars,
              LAMBDA v : /\ ~IsSubstring(v, loop.init_var)
                         /\ v \notin SeqToSet(loop.potential_private_vars))

\* lines 257-260: the reduction clauses of the suggested pragma
ReductionClauses(loop) ==
    [k \in DOMAIN loop.potential_reductions |->
        <<Remove(loop.potential_reductions[k][2], "="), loop.potential_reductions[k][1]>>]

RECURSIVE Flatten(_)
Flatten(qq) == IF qq = <<>> THEN <<>> ELSE Head(qq) \o Flatten(Tail(qq))

\* lines 222-265: the report lines of loop number n
LoopLines(loop, n) ==
    <<Line("loop", n, <<n>>, <<>>),
      Line("line", n, <<loop.start_line>>, <<>>),
      Line("iterator", n, <<>>, <<OrUnknown(loop.init_var)>>),
      Line("condition", n, <<>>, <<OrUnknown(loop.condition)>>),
      Line("increment", n, <<>>, <<OrUnknown(loop.increment)>>),
      Line("nested", n, IF loop.is_nested THEN <<loop.depth>> ELSE <<>>, <<>>),
      Line("analysis", n, <<>>, <<>>)>>
    \o (IF loop.potential_reductions # <<>>
        THEN <<Line("reductions", n, <<>>, <<>>)>>
             \o [k \in DOMAIN loop.potential_reductions |->
                    Line("reduction", n, <<>>, loop.potential_reductions[k])]
        ELSE <<>>)
    \o (IF loop.potential_private_vars # <<>>
        THEN <<Line("private", n, <<>>, loop.potential_private_vars)>>
        ELSE <<>>)
    \o (IF loop.potential_shared_vars # <<>> /\ SharedListed(loop) # <<>>
        THEN <<Line("shared", n, <<>>, SharedListed(loop))>>
        ELSE <<>>)
    \o (IF loop.has_function_calls THEN <<Line("warning_calls", n, <<>>, <<>>)>> ELSE <<>>)
    \o (IF loop.has_array_access THEN <<Line("note_arrays", n, <<>>, <<>>)>> ELSE <<>>)
    \o <<Line("pragma", n, <<>>, <<>>)>>
    \o (IF loop.potential_reductions # <<>>
        THEN <<Line("pragma_reduction", n, <<>>, Flatten(ReductionClauses(loop)))>>
        ELSE <<>>)
    \o (IF loop.potential_private_vars # <<>>
        THEN <<Line("pragma_private", n, <<>>, loop.potential_private_vars)>>
        ELSE <<>>)

\* lines 269-278: the report lines of section group number n
SectionLines(sec, n) ==
    <<Line("section", n, <<n>>, <<>>),
      Line("section_lines", n, <<sec.start_line, sec.end_line>>, <<>>),
      Line("section_count", n, <<sec.count>>, <<>>),
      Line("section_pragma", n, <<>>, <<>>)>>

\* lines 213-280
CReport(ls, secs) ==
    IF ls = <<>> /\ secs = <<>>
    THEN Returned("empty", "No parallelizable loops or sections found.", <<>>)
    ELSE Returned("report", "",
            <<Line("header", 0, <<>>, <<>>)>>
            \o (IF ls # <<>> THEN <<Line("found_loops", 0, <<Len(ls)>>, <<>>)>> ELSE <<>>)
            \o Flatten([k \in DOMAIN ls |-> LoopLines(ls[k], k)])
            \o (IF secs # <<>>
                THEN <<Line("found_sections", 0, <<Len(secs)>>, <<>>)>>
                     \o Flatten([k \in DOMAIN secs |-> SectionLines(secs[k], k)])
                ELSE <<>>))

\* ast_utils.py lines 44-51
PyReport(ls) ==
    IF ls = <<>>
    THEN Returned("empty", "No explicit 'for' loops found by static analysis.", <<>>)
    ELSE Returned("report", "",
            <<Line("header", 0, <<>>, <<>>)>>
            \o [k \in DOMAIN ls |->
                  Line("loop", k, <<ls[k].start_line, ls[k].end_line>>, <<ls[k].target_var>>)])

AnalysisVars ==
    <<loops, current_depth, sections, todo, current_batch, i, j, group, combined_read,
      combined_written>>

InputVars == <<lang, source, hashseed, prev_result, ValidatorVars, WorkflowVars, code>>

\* line 197: preprocess_c_code, outside the try; re.sub raises re.error on a
\* macro value that holds an escape re does not know, such as \x
PreprocessC ==
    /\ pc = "start"
    /\ lang = "c"
    /\ IF source.defect = "macro_escape"
       THEN result' = Raised("error") /\ pc' = "done"
       ELSE result' = result /\ pc' = "parse"
    /\ UNCHANGED <<InputVars, AnalysisVars>>

\* lines 199-205: except Exception
ParseC ==
    /\ pc = "parse"
    /\ lang = "c"
    /\ \E exc \in CParseRaises(source) :
          IF exc = "ok"
          THEN result' = result /\ pc' = "visit_loops"
          ELSE IF IsInstance(exc, "Exception")
               THEN result' = Returned("parse_error", source.diag, <<>>) /\ pc' = "done"
               ELSE result' = Raised(exc) /\ pc' = "done"
    /\ UNCHANGED <<InputVars, AnalysisVars>>

\* ast_utils.py lines 36-39: except SyntaxError
ParsePy ==
    /\ pc = "start"
    /\ lang = "python"
    /\ \E exc \in PyParseRaises(source) :
          IF exc = "ok"
          THEN result' = result /\ pc' = "visit_loops"
          ELSE IF IsInstance(exc, "SyntaxError")
               THEN result' = Returned("parse_error", source.diag, <<>>) /\ pc' = "done"
               ELSE result' = Raised(exc) /\ pc' = "done"
    /\ UNCHANGED <<InputVars, AnalysisVars>>

\* lines 207-210: visitor = CLoopVisitor(); visitor.visit(ast)
VisitLoopsC ==
    /\ pc = "visit_loops"
    /\ lang = "c"
    /\ LET st == CLV_visit(source.ast, [loops |-> <<>>, current_depth |-> 0], hashseed)
       IN /\ loops' = st.loops
          /\ current_depth' = st.current_depth
    /\ todo' = TopCompounds(source.ast)
    /\ pc' = "sections"
    /\ UNCHANGED <<InputVars, result, sections, ScanVars>>

\* ast_utils.py lines 41-42: visitor = LoopVisitor(); visitor.visit(tree); the
\* visit recurses two frames per tree level and is in no try
VisitLoopsPy ==
    /\ pc = "visit_loops"
    /\ lang = "python"
    /\ IF source.nesting = "deep"
       THEN /\ result' = Raised("RecursionError")
            /\ pc' = "done"
            /\ UNCHANGED loops
       ELSE /\ loops' = PLV_visit(source.ast, <<>>)
            /\ pc' = "assemble"
            /\ UNCHANGED result
    /\ UNCHANGED <<InputVars, current_depth, sections, todo, ScanVars>>

\* lines 213-280
AssembleC ==
    /\ pc = "assemble"
    /\ lang = "c"
    /\ result' = CReport(loops, sections)
    /\ pc' = "done"
    /\ UNCHANGED <<InputVars, AnalysisVars>>

\* ast_utils.py lines 44-51
AssemblePy ==
    /\ pc = "assemble"
    /\ lang = "python"
    /\ result' = PyReport(loops)
    /\ pc' = "done"
    /\ UNCHANGED <<InputVars, AnalysisVars>>

\* the analysis is called again on the same source
Restart ==
    /\ pc = "done"
    /\ prev_result = NoResult
    /\ prev_result' = result
    /\ result' = NoResult
    /\ pc' = "start"
    /\ loops' = <<>>
    /\ current_depth' = 0
    /\ sections' = <<>>
    /\ todo' = <<>>
    /\ current_batch' = <<>>
    /\ i' = 0
    /\ j' = 0
    /\ group' = <<>>
    /\ combined_read' = {}
    /\ combined_written' = {}
    /\ UNCHANGED <<lang, source, ValidatorVars, WorkflowVars, code>>

\* ... by the same process (workflow.py lines 41, 117)
RunAgainSameProcess == Restart /\ hashseed' = hashseed

\* ... by a new process (main.py run once more): a fresh hash seed
RunAgainNewProcess == Restart /\ hashseed' \in HashSeeds

-----------------------------------------------------------------------------
(* Source units the entry points are examined on *)

\* longest loop body, in statements
MaxBody == 2

N_sum == <<"s", "u", "m">>
N_ix == <<"i", "x">>

LoopStmts ==
    { Assignment(OpPlusEq, ID(N_sum), ID(<<"x">>)),
      Assignment(OpAssign, ID(N_sum), BinaryOp(OpPlus, ID(N_sum), ID(<<"x">>))),
      Assignment(OpTimesEq, ID(N_sum), ID(<<"x">>)),
      Decl(<<"t">>, ID(<<"x">>)),
      Assignment(OpAssign, ID(<<"t">>), ID(<<"x">>)),
      Assignment(OpAssign, ArrayRef(ID(<<"a">>), ID(<<"i">>)), ID(<<"t">>)),
      FuncCall(<<"f">>, ExprList(<<ID(<<"t">>)>>)),
      Assignment(OpAssign, ID(<<"y">>), ID(<<"x">>)),
      Assignment(OpAssign, ID(N_sum), BinaryOp(OpLess, ID(N_sum), ID(<<"x">>))) }

LoopBodies == UNION {[1..n -> LoopStmts] : n \in 1..MaxBody}

\* for (it = 0; it < n; it++) { body }
CountedFor(it, body) ==
    For(Assignment(OpAssign, ID(it), Constant(<<"0">>)),
        BinaryOp(OpLess, ID(it), ID(<<"n">>)),
        UnaryOp(OpPostInc, ID(it)),
        Compound(body))

SumStmt == Assignment(OpPlusEq, ID(N_sum), ID(<<"x">>))

NestedLoops ==
    { CountedFor(<<"i">>, <<CountedFor(<<"j">>, <<SumStmt>>)>>),
      CountedFor(<<"i">>, <<Decl(<<"t">>, ID(<<"x">>)),
                            CountedFor(<<"j">>, <<CountedFor(<<"k">>, <<SumStmt>>)>>)>>),
      While(ID(<<"c">>), Compound(<<CountedFor(<<"i">>, <<SumStmt>>)>>)),
      For(DeclList(<<Decl(<<"i">>, Constant(<<"0">>))>>), None, None,
          Compound(<<SumStmt>>)) }

CLoopUnits ==
    {<<CountedFor(it, body)>> : it \in {<<"i">>, N_ix}, body \in LoopBodies}
    \cup {<<l>> : l \in NestedLoops}
    \cup {<<CountedFor(<<"i">>, <<SumStmt>>), CountedFor(<<"j">>, <<SumStmt>>)>>}

CPlainUnits ==
    { <<>>,
      <<Assignment(OpAssign, ID(<<"a">>), Constant(<<"1">>))>>,
      <<Assignment(OpAssign, ID(<<"a">>), Constant(<<"1">>)),
        Assignment(OpAssign, ID(<<"b">>), Constant(<<"1">>))>>,
      <<Assignment(OpAssign, ID(<<"a">>), Constant(<<"1">>)),
        Assignment(OpAssign, ID(<<"b">>), Constant(<<"1">>)),
        Assignment(OpAssign, ID(<<"c">>), BinaryOp(OpPlus, ID(<<"a">>), ID(<<"b">>)))>>,
      <<While(ID(<<"c">>), Compound(<<UnaryOp(OpPostInc, ID(<<"a">>))>>))>>,
      <<While(ID(<<"c">>), Compound(<<Assignment(OpAssign, ID(<<"a">>), Constant(<<"1">>)),
                                      Assignment(OpAssign, ID(<<"b">>), Constant(<<"1">>))>>)),
        Assignment(OpAssign, ID(<<"a">>), Constant(<<"1">>)),
        Assignment(OpAssign, ID(<<"b">>), Constant(<<"1">>))>> }

Unit(defect, diag, nesting, ast) ==
    [defect |-> defect, diag |-> diag, nesting |-> nesting, ast |-> ast]

CSources ==
    {Unit("none", "", "shallow", FuncBody(b)) : b \in CLoopUnits \cup CPlainUnits}
    \cup { Unit("syntax", "<input>:2:9: before: ;", "shallow", None),
           Unit("nul_byte", "<input>:1:1: Illegal character", "shallow", None),
           Unit("macro_escape", "", "shallow",
                FuncBody(<<CountedFor(<<"i">>, <<SumStmt>>)>>)) }

PyIter == PyName(<<"x", "s">>)

PyLoopUnits ==
    { <<PyFor(PyName(<<"i">>), PyIter, <<PyPass>>)>>,
      <<PyFor(PyName(<<"i">>), PyIter, <<PyFor(PyName(<<"j">>), PyIter, <<PyPass>>)>>)>>,
      <<PyFor(PyName(<<"i">>), PyIter,
              <<PyPass, PyFor(PyName(<<"j">>), PyIter,
                              <<PyFor(PyName(<<"k">>), PyIter, <<PyPass>>)>>)>>)>>,
      <<PyWhile(PyName(<<"c">>), <<PyFor(PyName(<<"i">>), PyIter, <<PyPass>>)>>)>>,
      <<PyFor(PyTuple(<<PyName(<<"k">>), PyName(<<"v">>)>>), PyIter, <<PyPass>>)>>,
      <<PyFor(PyTuple(<<PyName(<<"k">>), PyTuple(<<PyName(<<"a">>), PyName(<<"b">>)>>)>>),
              PyIter, <<PyPass>>)>>,
      <<PyFor(PyTuple(<<PyTuple(<<PyName(<<"a">>), PyName(<<"b">>)>>)>>), PyIter,
              <<PyPass>>)>>,
      <<PyFor(PyAttribute(PyName(<<"o">>), <<"f">>), PyIter, <<PyPass>>)>>,
      <<PyFor(PyName(<<"i">>), PyIter, <<PyPass>>),
        PyFor(PyName(<<"j">>), PyIter, <<PyPass>>)>> }

PyPlainUnits ==
    { <<PyPass>>,
      <<PyPass, PyPass>>,
      <<PyWhile(PyName(<<"c">>), <<PyPass>>)>> }

PySources ==
    {Unit("none", "", "shallow", PyUnit(b)) : b \in PyLoopUnits \cup PyPlainUnits}
    \cup { Unit("none", "", "deep", PyUnit(<<PyPass>>)),
           Unit("none", "", "too_deep", PyUnit(<<PyPass>>)),
           Unit("none", "", "too_deep_unary", PyUnit(<<PyPass>>)),
           Unit("syntax", "invalid syntax (<unknown>, line 1)", "shallow", None),
           Unit("indent", "unexpected indent (<unknown>, line 2)", "shallow", None),
           Unit("nul_byte", "source code string cannot contain null bytes", "shallow",
                None),
           Unit("surrogate", "", "shallow", None) }

Sources(l) == IF l = "c" THEN CSources ELSE PySources

Init ==
    /\ lang \in {"c", "python"}
    /\ source \in Sources(lang)
    /\ hashseed \in HashSeeds
    /\ pc = "start"
    /\ result = NoResult
    /\ prev_result = NoResult
    /\ loops = <<>>
    /\ current_depth = 0
    /\ sections = <<>>
    /\ todo = <<>>
    /\ current_batch = <<>>
    /\ i = 0
    /\ j = 0
    /\ group = <<>>
    /\ combined_read = {}
    /\ combined_written = {}
    /\ ValidatorIdle
    /\ WorkflowIdle
    /\ code = <<>>

Next ==
    \/ PreprocessC
    \/ ParseC
    \/ ParsePy
    \/ VisitLoopsC
    \/ VisitLoopsPy
    \/ NextSections
    \/ AssembleC
    \/ AssemblePy
    \/ RunAgainSameProcess
    \/ RunAgainNewProcess

Spec == Init /\ [][Next]_vars

-----------------------------------------------------------------------------
(* The grouper's claims, under SpecSections *)

\* the candidate group that the scan has just closed
JustClosed == pc = "outer" /\ group # <<>>

\* the closed group is among the emitted sections (statement lines are
\* unique in a unit, so a section names its first and last member)
Emitted(g) ==
    \E k \in DOMAIN sections :
        /\ sections[k].start_line = g[1].line
        /\ sections[k].end_line = g[Len(g)].line
        /\ sections[k].count = Len(g)

MeaningfulCount(g) ==
    Cardinality({k \in DOMAIN g : g[k].written # {} \/ g[k].calls # {}})

\* C1: any two distinct members A (earlier) and B (later) of a group have
\* written(A) and read(B) disjoint, read(A) and written(B) disjoint, and
\* written(A) and written(B) disjoint; it holds of the candidate group at
\* every step, hence of every group that is emitted.
C1_GroupConflictFree ==
    \A a, b \in DOMAIN group :
        a < b =>
            /\ group[a].written \cap group[b].read = {}
            /\ group[a].read \cap group[b].written = {}
            /\ group[a].written \cap group[b].written = {}

\* an emitted group of three members that all write, one of them reading too
C1_Witness ==
    /\ JustClosed
    /\ Emitted(group)
    /\ Len(group) >= 3
    /\ \A k \in DOMAIN group : group[k].written # {}
    /\ \E k \in DOMAIN group : group[k].read # {}

\* C2: a closed run of mutually independent statements is emitted as a group
\* if and only if at least 2 of its members have a non-empty written set or
\* a non-empty calls set.
C2_EmittedIffTwoMeaningful ==
    JustClosed => (Emitted(group) <=> MeaningfulCount(group) >= 2)

\* a run of three members is emitted on the strength of exactly two
\* meaningful ones
C2_Witness ==
    /\ JustClosed
    /\ Len(group) = 3
    /\ MeaningfulCount(group) = 2
    /\ Emitted(group)

\* the block of C3: three single-line statements, the first two each write
\* one variable, neither reads the other's, the third reads both
ThreeStmtExample ==
    LET b == source.ast.kids
    IN /\ Len(b) = 3
       /\ \A k \in 1..3 : Height(b[k]) = 1
       /\ \E x, y \in VU_visit(b[1]).written \cup VU_visit(b[2]).written :
            /\ x # y
            /\ VU_visit(b[1]).written = {x}
            /\ VU_visit(b[2]).written = {y}
            /\ y \notin VU_visit(b[1]).read
            /\ x \notin VU_visit(b[2]).read
            /\ {x, y} \subseteq VU_visit(b[3]).read

\* C3: on such a block the grouper emits exactly one group, from the line of
\* statement 1 to the line of statement 2 with 2 members; statement 3 is in
\* no group.
C3_ThreeStmtGroup ==
    (ThreeStmtExample /\ pc = "assemble") =>
        sections = <<[start_line |-> source.ast.kids[1].line,
                      end_line |-> source.ast.kids[2].line,
                      count |-> 2]>>

\* a = 1; b = 1; c = a + b; has been scanned
C3_Witness ==
    /\ pc = "assemble"
    /\ ThreeStmtExample
    /\ source.ast = FuncBody(<<Assignment(OpAssign, ID(<<"a">>), Constant(<<"1">>)),
                               Assignment(OpAssign, ID(<<"b">>), Constant(<<"1">>)),
                               Assignment(OpAssign, ID(<<"c">>),
                                          BinaryOp(OpPlus, ID(<<"a">>), ID(<<"b">>)))>>)
    /\ Len(sections) = 1

-----------------------------------------------------------------------------
(* The entry points' claims, under Spec *)

\* the parser raises on the unit
ParserRejects ==
    IF lang = "c" THEN "ok" \notin CParseRaises(source)
    ELSE "ok" \notin PyParseRaises(source)

\* the call has returned a report or the empty marker
Analysed == pc = "done" /\ result.kind \in {"report", "empty"}

IterationKinds == {"For", "While", "PyFor", "PyWhile"}

RECURSIVE HasIteration(_)
\* the tree holds an iteration construct
HasIteration(node) ==
    \/ node.kind \in IterationKinds
    \/ \E k \in DOMAIN node.kids : HasIteration(node.kids[k])

RECURSIVE ForNodes(_)
\* the for loops of the tree, an outer loop before the loops inside it
ForNodes(node) ==
    (IF node.kind \in {"For", "PyFor"} THEN <<node>> ELSE <<>>)
    \o Flatten([k \in DOMAIN node.kids |-> ForNodes(node.kids[k])])

RECURSIVE EnclosingCounts(_, _)
\* for each for loop of the tree, in the order of ForNodes, how many
\* iteration constructs enclose it; d of them enclose the tree itself
EnclosingCounts(node, d) ==
    (IF node.kind \in {"For", "PyFor"} THEN <<d>> ELSE <<>>)
    \o Flatten([k \in DOMAIN node.kids |->
                  EnclosingCounts(node.kids[k],
                                  IF node.kind \in IterationKinds THEN d + 1 ELSE d)])

RECURSIVE NodesOf(_)
\* every node of the tree
NodesOf(node) == {node} \cup UNION {NodesOf(node.kids[k]) : k \in DOMAIN node.kids}

\* names that are the plain left side of a compound assignment in the tree
CompoundTargets(node) ==
    {a.kids[1].name : a \in {b \in NodesOf(node) : /\ b.kind = "Assignment"
                                                    /\ b.op # OpAssign
                                                    /\ b.kids[1].kind = "ID"}}

\* names declared in the tree
DeclaredIn(node) == {d.name : d \in {b \in NodesOf(node) : b.kind = "Decl"}}

\* names the tree reads or writes
NamesTouched(node) == {n.name : n \in {b \in NodesOf(node) : b.kind = "ID"}}

RECURSIVE IDsOf(_)
\* the names of the tree's ID nodes, one entry per occurrence
IDsOf(node) ==
    (IF node.kind = "ID" THEN <<node.name>> ELSE <<>>)
    \o Flatten([k \in DOMAIN node.kids |-> IDsOf(node.kids[k])])

\* how many times the tree names v
Uses(node, v) == Len(SelectSeq(IDsOf(node), LAMBDA n : n = v))

\* the body of the k-th loop record
BodyOf(k) == ForNodes(source.ast)[k].kids[4]

\* the names with a reduction entry in a loop record
ReductionVars(loop) ==
    {loop.potential_reductions[m][1] : m \in DOMAIN loop.potential_reductions}

\* C4: for every input the parser rejects, the call returns a parse-error
\* result carrying the parser's diagnostic message (no exception passes the
\* entry point), and no loop or group report is produced for the unit.
C4_ParseFailureIsResult ==
    (pc = "done" /\ ParserRejects) =>
        /\ result = Returned("parse_error", source.diag, <<>>)
        /\ loops = <<>>
        /\ sections = <<>>

\* C5: for every valid unit with zero iteration constructs the loop sequence
\* is empty and the call returns the explicit empty result, which is neither
\* a parse-error result nor a raised exception.
C5_NoLoopsIsEmptyResult ==
    (pc = "done" /\ source.defect = "none" /\ ~ParserRejects /\ ~HasIteration(source.ast)) =>
        /\ loops = <<>>
        /\ result.kind = "empty"

\* C6: every loop record's depth is the number of iteration constructs that
\* enclose the loop (so a loop directly inside another has the outer depth
\* plus 1), a record says nested exactly when that number is above 0, and
\* the depth counter is back at 0 after the walk; in both languages.
C6_NestingDepth ==
    Analysed =>
        LET enc == EnclosingCounts(source.ast, 0)
        IN /\ Len(loops) = Len(enc)
           /\ \A k \in DOMAIN loops :
                /\ k \in DOMAIN enc
                /\ loops[k].is_nested = (enc[k] > 0)
                /\ lang = "c" => loops[k].depth = enc[k]
           /\ current_depth = 0

\* C7: a variable that is the plain target of a compound assignment in a
\* loop body has a reduction entry in that loop's record and is neither in
\* the record's shared list nor on the report's shared line.
C7_CompoundIsReductionNotShared ==
    (Analysed /\ lang = "c") =>
        \A k \in DOMAIN loops :
            \A v \in CompoundTargets(BodyOf(k)) :
                /\ v \in ReductionVars(loops[k])
                /\ v \notin SeqToSet(loops[k].potential_shared_vars)
                /\ v \notin SeqToSet(SharedListed(loops[k]))

\* C8: the reduction variables, the private list and the shared list of a
\* loop record are pairwise disjoint and together hold every name the body
\* reads or writes.
C8_ExactlyOneRole ==
    (Analysed /\ lang = "c") =>
        \A k \in DOMAIN loops :
            LET red == ReductionVars(loops[k])
                priv == SeqToSet(loops[k].potential_private_vars)
                shared == SeqToSet(loops[k].potential_shared_vars)
            IN /\ red \cap priv = {}
               /\ red \cap shared = {}
               /\ priv \cap shared = {}
               /\ NamesTouched(BodyOf(k)) \subseteq red \cup priv \cup shared

\* C9: a name declared in a loop body and used nowhere outside that body is
\* in the loop's private list, not in its shared list and not on the
\* report's shared line, whether the declaration comes before or after the
\* uses.
C9_DeclaredIsPrivate ==
    (Analysed /\ lang = "c") =>
        \A k \in DOMAIN loops :
            \A v \in DeclaredIn(BodyOf(k)) :
                Uses(source.ast, v) = Uses(BodyOf(k), v) =>
                    /\ v \in SeqToSet(loops[k].potential_private_vars)
                    /\ v \notin SeqToSet(loops[k].potential_shared_vars)
                    /\ v \notin SeqToSet(SharedListed(loops[k]))

\* C10: the second run of the analysis on the same source returns exactly
\* what the first run returned, line for line and item for item.
C10_SameReportTwice ==
    (pc = "done" /\ prev_result # NoResult) => result = prev_result

\* the report lines that warn about loop number n
WarningKinds == {"warning_calls", "note_arrays"}

WarningLines(n) ==
    SelectSeq(result.lines, LAMBDA l : l.loop = n /\ l.kind \in WarningKinds)

\* the names the body of the k-th loop assigns, as the body analyzer
\* collects them, that are in the record's shared list and have no
\* reduction entry
WrittenShared(k) ==
    (LBA_visit(BodyOf(k), LBA_init).all_vars_written
        \cap SeqToSet(loops[k].potential_shared_vars))
    \ ReductionVars(loops[k])

\* the shared names of the k-th loop that its body never assigns
ReadOnlyShared(k) ==
    SeqToSet(loops[k].potential_shared_vars)
    \ LBA_visit(BodyOf(k), LBA_init).all_vars_written

\* C11: every shared variable of a loop that the body writes and that is no
\* reduction is named on a warning line of that loop's report, and a shared
\* variable that is only read is named on none.
C11_WrittenSharedIsBlocker ==
    (Analysed /\ lang = "c") =>
        \A k \in DOMAIN loops :
            /\ \A v \in WrittenShared(k) :
                 \E m \in DOMAIN WarningLines(k) : v \in SeqToSet(WarningLines(k)[m].items)
            /\ \A v \in ReadOnlyShared(k) :
                 \A m \in DOMAIN WarningLines(k) : v \notin SeqToSet(WarningLines(k)[m].items)

RECURSIVE IterationNodes(_)
\* the iteration constructs of the tree, an outer one before those inside it
IterationNodes(node) ==
    (IF node.kind \in IterationKinds THEN <<node>> ELSE <<>>)
    \o Flatten([k \in DOMAIN node.kids |-> IterationNodes(node.kids[k])])

\* C12: the loop records are the iteration constructs of the unit, for loops
\* and while loops alike, one record per construct, each with the line its
\* construct starts on.
C12_EveryConstructRecorded ==
    Analysed =>
        LET its == IterationNodes(source.ast)
        IN /\ Len(loops) = Len(its)
           /\ \A k \in DOMAIN loops :
                k \in DOMAIN its /\ loops[k].start_line = its[k].line

\* the source lines the report gives for its loops, in the order printed
LoopPositions ==
    LET at == SelectSeq(result.lines,
                        LAMBDA l : l.kind = (IF lang = "c" THEN "line" ELSE "loop"))
    IN [k \in DOMAIN at |-> at[k].nums[1]]

\* the first and last line the report gives for its section groups, in the
\* order printed
SectionPositions ==
    LET at == SelectSeq(result.lines, LAMBDA l : l.kind = "section_lines")
    IN [k \in DOMAIN at |-> at[k].nums]

Increasing(q) == \A a, b \in DOMAIN q : a < b => q[a] < q[b]

\* C13: the report gives every loop record and every emitted group exactly
\* once, none dropped, the loops in increasing source position and the
\* groups, those of nested blocks included, in increasing source position.
C13_ReportKeepsSourceOrder ==
    Analysed =>
        /\ LoopPositions = [k \in DOMAIN loops |-> loops[k].start_line]
        /\ Increasing(LoopPositions)
        /\ SectionPositions =
              [k \in DOMAIN sections |-> <<sections[k].start_line, sections[k].end_line>>]
        /\ Increasing([k \in DOMAIN SectionPositions |-> SectionPositions[k][1]])

-----------------------------------------------------------------------------
(* The validation script: UNIVERSAL_VALIDATOR_SCRIPT of
   c_validator_deterministic.py, run by check_validation *)

\* check_validation line 37: the text the verdict is looked up by
ValidationPassed ==
    <<"V", "a", "l", "i", "d", "a", "t", "i", "o", "n", " ", "P", "a", "s", "s", "e",
      "d">>

\* line 25, for original.c
MsgCompilingOriginal ==
    <<"C", "o", "m", "p", "i", "l", "i", "n", "g", ":", " ", "g", "c", "c", " ", "-",
      "O", "2", " ", "-", "o", " ", "o", "r", "i", "g", "i", "n", "a", "l", " ", "o",
      "r", "i", "g", "i", "n", "a", "l", ".", "c", " ", "-", "l", "m">>

\* line 25, for parallel.c
MsgCompilingParallel ==
    <<"C", "o", "m", "p", "i", "l", "i", "n", "g", ":", " ", "g", "c", "c", " ", "-",
      "O", "2", " ", "-", "f", "o", "p", "e", "n", "m", "p", " ", "-", "o", " ", "p",
      "a", "r", "a", "l", "l", "e", "l", " ", "p", "a", "r", "a", "l", "l", "e", "l",
      ".", "c", " ", "-", "l", "m">>

\* line 29
MsgCompilationFailedOriginal ==
    <<"C", "o", "m", "p", "i", "l", "a", "t", "i", "o", "n", " ", "F", "a", "i", "l",
      "e", "d", " ", "f", "o", "r", " ", "o", "r", "i", "g", "i", "n", "a", "l", ".",
      "c", ":">>

\* line 29
MsgCompilationFailedParallel ==
    <<"C", "o", "m", "p", "i", "l", "a", "t", "i", "o", "n", " ", "F", "a", "i", "l",
      "e", "d", " ", "f", "o", "r", " ", "p", "a", "r", "a", "l", "l", "e", "l", ".",
      "c", ":">>

\* line 69
MsgOriginalCompilationError ==
    <<"V", "a", "l", "i", "d", "a", "t", "i", "o", "n", " ", "F", "a", "i", "l", "e",
      "d", ":", " ", "O", "r", "i", "g", "i", "n", "a", "l", " ", "c", "o", "m", "p",
      "i", "l", "a", "t", "i", "o", "n", " ", "e", "r", "r", "o", "r">>

\* line 74
MsgParallelCompilationError ==
    <<"V", "a", "l", "i", "d", "a", "t", "i", "o", "n", " ", "F", "a", "i", "l", "e",
      "d", ":", " ", "P", "a", "r", "a", "l", "l", "e", "l", " ", "c", "o", "m", "p",
      "i", "l", "a", "t", "i", "o", "n", " ", "e", "r", "r", "o", "r">>

\* line 78
MsgRunningOriginal ==
    <<"R", "u", "n", "n", "i", "n", "g", " ", "o", "r", "i", "g", "i", "n", "a", "l",
      " ", "c", "o", "d", "e", ".", ".", ".">>

\* line 86
MsgRunningParallel ==
    <<"R", "u", "n", "n", "i", "n", "g", " ", "p", "a", "r", "a", "l", "l", "e", "l",
      " ", "c", "o", "d", "e", ".", ".", ".">>

\* line 60
MsgTimedOut ==
    <<"E", "x", "e", "c", "u", "t", "i", "o", "n", " ", "t", "i", "m", "e", "d", " ",
      "o", "u", "t", " ", "f", "o", "r", " ">>

\* line 81
MsgOriginalFailed ==
    <<"O", "r", "i", "g", "i", "n", "a", "l", " ", "e", "x", "e", "c", "u", "t", "i",
      "o", "n", " ", "f", "a", "i", "l", "e", "d", ":", " ">>

\* line 89
MsgParallelFailed ==
    <<"P", "a", "r", "a", "l", "l", "e", "l", " ", "e", "x", "e", "c", "u", "t", "i",
      "o", "n", " ", "f", "a", "i", "l", "e", "d", ":", " ">>

\* lines 82, 90
MsgValidationFailed ==
    <<"V", "a", "l", "i", "d", "a", "t", "i", "o", "n", " ", "F", "a", "i", "l", "e",
      "d">>

\* line 99
MsgPassed ==
    <<"\n", "V", "a", "l", "i", "d", "a", "t", "i", "o", "n", " ", "P", "a", "s", "s",
      "e", "d">>

\* line 112; the times are wall-clock measurements, left out
MsgMetrics ==
    <<"M", "E", "T", "R", "I", "C", "S", ":", " ">>

\* line 114
MsgMismatch ==
    <<"\n", "V", "a", "l", "i", "d", "a", "t", "i", "o", "n", " ", "F", "a", "i", "l",
      "e", "d", ":", " ", "O", "u", "t", "p", "u", "t", " ", "m", "i", "s", "m", "a",
      "t", "c", "h">>

\* line 115
MsgOriginalOutput ==
    <<"-", "-", "-", " ", "O", "r", "i", "g", "i", "n", "a", "l", " ", "O", "u", "t",
      "p", "u", "t", " ", "(", "F", "i", "r", "s", "t", " ", "1", "0", " ", "l", "i",
      "n", "e", "s", " ", "s", "o", "r", "t", "e", "d", ")", " ", "-", "-", "-">>

\* line 117
MsgParallelOutput ==
    <<"-", "-", "-", " ", "P", "a", "r", "a", "l", "l", "e", "l", " ", "O", "u", "t",
      "p", "u", "t", " ", "(", "F", "i", "r", "s", "t", " ", "1", "0", " ", "l", "i",
      "n", "e", "s", " ", "s", "o", "r", "t", "e", "d", ")", " ", "-", "-", "-">>

\* line 61
TimeoutText ==
    <<"T", "I", "M", "E", "O", "U", "T">>

\* lines 43-51: exec_path of the original
PathOriginal ==
    <<"o", "r", "i", "g", "i", "n", "a", "l">>

\* lines 43-51: exec_path of the parallel program
PathParallel ==
    <<"p", "a", "r", "a", "l", "l", "e", "l">>

\* what gcc writes to stderr on a program it rejects
GccDiagnostic ==
    <<"e", "r", "r", "o", "r", ":", " ", "e", "x", "p", "e", "c", "t", "e", "d", " ",
      "'", ";", "'", "\n">>

\* what a crashing program writes to stderr
CrashText ==
    <<"S", "e", "g", "m", "e", "n", "t", "a", "t", "i", "o", "n", " ", "f", "a", "u",
      "l", "t", "\n">>

\* an output line
LineA ==
    <<"A">>

\* an output line
LineB ==
    <<"B">>

\* the line A with blanks around it
LinePaddedA ==
    <<" ", "A", " ">>

\* most lines a program prints
MaxLines == 2

\* the characters of program output, in code point order
Ascii ==
    <<"\n", " ", "A", "B", "P", "V", "a", "d", "e", "i", "l", "n", "o", "s", "t">>

CodePoint(ch) == CHOOSE k \in DOMAIN Ascii : Ascii[k] = ch

RECURSIVE StrLess(_, _)
\* Python's  s < t  on str
StrLess(s, t) ==
    IF s = <<>> THEN t # <<>>
    ELSE IF t = <<>> THEN FALSE
    ELSE IF CodePoint(Head(s)) # CodePoint(Head(t))
         THEN CodePoint(Head(s)) < CodePoint(Head(t))
         ELSE StrLess(Tail(s), Tail(t))

IsSpace(ch) == ch \in {" ", "\n"}

RECURSIVE LStrip(_)
LStrip(t) == IF t # <<>> /\ IsSpace(Head(t)) THEN LStrip(Tail(t)) ELSE t

RECURSIVE RStrip(_)
RStrip(t) ==
    IF t # <<>> /\ IsSpace(t[Len(t)]) THEN RStrip(SubSeq(t, 1, Len(t) - 1)) ELSE t

\* Python's  text.strip()
Strip(t) == RStrip(LStrip(t))

RECURSIVE SplitFrom(_, _)
\* the lines of t after the line cur that is being read
SplitFrom(t, cur) ==
    IF t = <<>> THEN (IF cur = <<>> THEN <<>> ELSE <<cur>>)
    ELSE IF Head(t) = "\n" THEN <<cur>> \o SplitFrom(Tail(t), <<>>)
    ELSE SplitFrom(Tail(t), Append(cur, Head(t)))

\* Python's  text.splitlines()
SplitLines(t) == SplitFrom(t, <<>>)

RECURSIVE Insert(_, _)
Insert(sorted, l) ==
    IF sorted = <<>> THEN <<l>>
    ELSE IF StrLess(l, Head(sorted)) THEN <<l>> \o sorted
    ELSE <<Head(sorted)>> \o Insert(Tail(sorted), l)

RECURSIVE Sorted(_)
\* Python's  sorted(list of str)
Sorted(ls) == IF ls = <<>> THEN <<>> ELSE Insert(Sorted(SubSeq(ls, 1, Len(ls) - 1)), ls[Len(ls)])

\* lines 95-96: sorted([line.strip() for line in out.strip().splitlines()
\* if line.strip()])
ComparedLines(out) ==
    LET ls == SplitLines(Strip(out))
        kept == SelectSeq(ls, LAMBDA l : Strip(l) # <<>>)
    IN Sorted([k \in DOMAIN kept |-> Strip(kept[k])])

\* Python's  list[:n]
FirstN(ls, n) == SubSeq(ls, 1, IF Len(ls) < n THEN Len(ls) ELSE n)

ShownLines == 10

\* print(text) onto what has been printed
WriteLine(out, text) == out \o text \o <<"\n">>

\* a C program as the script meets it: whether gcc accepts it and, run,
\* whether it ends within the 30 s, with which exit code and output
Program(compiles, ends, returncode, out, err) ==
    [compiles |-> compiles, ends |-> ends, returncode |-> returncode,
     stdout |-> out, stderr |-> err]

OutLines == {LineA, LineB, LinePaddedA, <<>>, ValidationPassed}

\* what a program prints: up to MaxLines lines, each ended by a line break
OutTexts ==
    {Flatten([k \in DOMAIN ls |-> ls[k] \o <<"\n">>]) :
        ls \in UNION {[1..n -> OutLines] : n \in 0..MaxLines}}

Programs ==
    {Program(FALSE, TRUE, 0, <<>>, GccDiagnostic),
     Program(TRUE, FALSE, 0, <<>>, <<>>),
     Program(TRUE, TRUE, 1, <<>>, CrashText)}
    \cup {Program(TRUE, TRUE, 0, t, <<>>) : t \in OutTexts}

\* lines 23-38: compile_code, with gcc installed; what it prints and returns
CompileCode(prog, compiling, failed) ==
    IF prog.compiles
    THEN [printed |-> WriteLine(<<>>, compiling), ok |-> TRUE]
    ELSE [printed |-> WriteLine(WriteLine(WriteLine(<<>>, compiling), failed), prog.stderr),
          ok |-> FALSE]

\* lines 41-64: run_code; what it prints and returns
RunCode(prog, exec_path) ==
    IF prog.ends
    THEN [printed |-> <<>>, out |-> prog.stdout, err |-> prog.stderr,
          ret |-> prog.returncode]
    ELSE [printed |-> WriteLine(<<>>, MsgTimedOut \o exec_path), out |-> <<>>,
          err |-> TimeoutText, ret |-> 0 - 1]

\* the variables of the analysis, which the validation script never touches
AnalysisState ==
    <<lang, source, hashseed, pc, result, prev_result, loops, current_depth, sections,
      todo, current_batch, i, j, group, combined_read, combined_written, code>>

\* lines 67-70
CompileOriginal ==
    /\ vpc = "compile_original"
    /\ LET c == CompileCode(original, MsgCompilingOriginal, MsgCompilationFailedOriginal)
       IN IF c.ok
          THEN output' = output \o c.printed /\ vpc' = "compile_parallel"
          ELSE /\ output' = WriteLine(output \o c.printed, MsgOriginalCompilationError)
               /\ vpc' = "finished"
    /\ UNCHANGED <<original, parallel, AnalysisState, WorkflowVars>>

\* lines 72-75
CompileParallel ==
    /\ vpc = "compile_parallel"
    /\ LET c == CompileCode(parallel, MsgCompilingParallel, MsgCompilationFailedParallel)
       IN IF c.ok
          THEN output' = output \o c.printed /\ vpc' = "run_original"
          ELSE /\ output' = WriteLine(output \o c.printed, MsgParallelCompilationError)
               /\ vpc' = "finished"
    /\ UNCHANGED <<original, parallel, AnalysisState, WorkflowVars>>

\* lines 77-83
RunOriginal ==
    /\ vpc = "run_original"
    /\ LET r == RunCode(original, PathOriginal)
           out1 == WriteLine(output, MsgRunningOriginal) \o r.printed
       IN IF r.ret # 0
          THEN /\ output' = WriteLine(WriteLine(out1, MsgOriginalFailed \o r.err),
                                      MsgValidationFailed)
               /\ vpc' = "finished"
          ELSE output' = out1 /\ vpc' = "run_parallel"
    /\ UNCHANGED <<original, parallel, AnalysisState, WorkflowVars>>

\* lines 85-91
RunParallel ==
    /\ vpc = "run_parallel"
    /\ LET r == RunCode(parallel, PathParallel)
           out1 == WriteLine(output, MsgRunningParallel) \o r.printed
       IN IF r.ret # 0
          THEN /\ output' = WriteLine(WriteLine(out1, MsgParallelFailed \o r.err),
                                      MsgValidationFailed)
               /\ vpc' = "finished"
          ELSE output' = out1 /\ vpc' = "compare"
    /\ UNCHANGED <<original, parallel, AnalysisState, WorkflowVars>>

\* lines 93-118
CompareResults ==
    /\ vpc = "compare"
    /\ LET orig_lines == ComparedLines(original.stdout)
           par_lines == ComparedLines(parallel.stdout)
       IN IF orig_lines = par_lines
          THEN output' = WriteLine(WriteLine(output, MsgPassed), MsgMetrics)
          ELSE output' =
                  WriteLine(
                    WriteLine(
                      WriteLine(
                        WriteLine(WriteLine(output, MsgMismatch), MsgOriginalOutput),
                        Join(FirstN(orig_lines, ShownLines), <<"\n">>)),
                      MsgParallelOutput),
                    Join(FirstN(par_lines, ShownLines), <<"\n">>))
    /\ vpc' = "finished"
    /\ UNCHANGED <<original, parallel, AnalysisState, WorkflowVars>>

\* verify_validator_only.py lines 36-37, workflow.py line 180: the verdict
\* read off the script's output
passed == IsSubstring(ValidationPassed, output)

\* check_validation has written original.c, parallel.c and the script and
\* starts the script
InitValidate ==
    /\ lang = "c"
    /\ source = Unit("none", "", "shallow", None)
    /\ hashseed = 0
    /\ pc = "idle"
    /\ result = NoResult
    /\ prev_result = NoResult
    /\ loops = <<>>
    /\ current_depth = 0
    /\ sections = <<>>
    /\ todo = <<>>
    /\ current_batch = <<>>
    /\ i = 0
    /\ j = 0
    /\ group = <<>>
    /\ combined_read = {}
    /\ combined_written = {}
    /\ original \in Programs
    /\ parallel \in Programs
    /\ vpc = "compile_original"
    /\ output = <<>>
    /\ WorkflowIdle
    /\ code = <<>>

NextValidate ==
    \/ CompileOriginal
    \/ CompileParallel
    \/ RunOriginal
    \/ RunParallel
    \/ CompareResults

SpecValidate == InitValidate /\ [][NextValidate]_vars

-----------------------------------------------------------------------------
(* The validation script's claims, under SpecValidate *)

\* the stripped non-empty lines of a program's output, in the order printed
StrippedLines(out) ==
    LET kept == SelectSeq(SplitLines(out), LAMBDA l : Strip(l) # <<>>)
    IN [k \in DOMAIN kept |-> Strip(kept[k])]

Occurrences(ls, l) == Cardinality({k \in DOMAIN ls : ls[k] = l})

SameMultiset(a, b) ==
    \A l \in SeqToSet(a) \cup SeqToSet(b) : Occurrences(a, l) = Occurrences(b, l)

\* the program compiles and runs to exit code 0 within the timeout
RunsClean(prog) == prog.compiles /\ prog.ends /\ prog.returncode = 0

\* C14: the script's run is read as 'Validation Passed' if and only if both
\* programs compile, both run to exit code 0 within the timeout, and the
\* multisets of their stripped non-empty output lines are equal.
C14_PassedIffSameLines ==
    vpc = "finished" =>
        (passed <=> /\ RunsClean(original)
                    /\ RunsClean(parallel)
                    /\ SameMultiset(StrippedLines(original.stdout),
                                    StrippedLines(parallel.stdout)))

-----------------------------------------------------------------------------
(* The grouper's scan, under SpecSections *)

\* statement b, later than a, has no RAW, WAR or WAW conflict with a
PairIndependent(a, b) ==
    /\ a.written \cap b.read = {}
    /\ a.read \cap b.written = {}
    /\ a.written \cap b.written = {}

\* the candidate passes the pairwise tests against every member of g
PairwiseAccepts(g, cand) == \A m \in DOMAIN g : PairIndependent(g[m], cand)

RECURSIVE PairwiseRun(_, _, _)
\* reference scan: the longest run batch[from..] that starts as g and takes
\* each next statement while it passes the pairwise tests
PairwiseRun(batch, g, next) ==
    IF next <= Len(batch) /\ PairwiseAccepts(g, batch[next])
    THEN PairwiseRun(batch, Append(g, batch[next]), next + 1)
    ELSE g

RECURSIVE PairwiseScan(_, _)
\* reference scan: the section records of a block from statement number
\* from on (1-based), every decision taken pairwise
PairwiseScan(batch, from) ==
    IF from >= Len(batch) THEN <<>>
    ELSE LET g == PairwiseRun(batch, <<batch[from]>>, from + 1)
             secs == IF Len(g) > 1 /\ Len(Meaningful(g)) > 1
                     THEN <<SectionRecord(g)>> ELSE <<>>
         IN secs \o PairwiseScan(batch, IF Len(g) > 1 THEN from + Len(g) ELSE from + 1)

\* the scan of the unit's outermost block has just ended
TopBlockScanned ==
    /\ pc = "outer"
    /\ ~(i < Len(current_batch) - 1)
    /\ todo = TopCompounds(source.ast)

\* C15: whenever a candidate is tested, the test against the running unions
\* accepts it exactly when the pairwise RAW, WAR and WAW tests against every
\* member accept it; and the groups the scan emits for a block are those of
\* the pairwise reference scan.
C15_UnionTestIsPairwiseTest ==
    /\ (pc = "inner" /\ j < Len(current_batch)) =>
          (IsIndependent(combined_written, combined_read, current_batch[j + 1])
              <=> PairwiseAccepts(group, current_batch[j + 1]))
    /\ TopBlockScanned => sections = PairwiseScan(current_batch, 1)

\* a candidate is tested against a group of two and conflicts with the
\* first member only
C15_Witness ==
    /\ pc = "inner"
    /\ j < Len(current_batch)
    /\ Len(group) = 2
    /\ ~PairIndependent(group[1], current_batch[j + 1])
    /\ PairIndependent(group[2], current_batch[j + 1])

\* longest block the scan is followed through
MaxScanStmts == 5

ScanStmts ==
    { Assignment(OpAssign, ID(<<"a">>), Constant(<<"1">>)),
      Assignment(OpAssign, ID(<<"b">>), Constant(<<"1">>)),
      Assignment(OpAssign, ID(<<"c">>), ID(<<"a">>)),
      ID(<<"c">>) }

ScanBlocks == UNION {[1..n -> ScanStmts] : n \in 1..MaxScanStmts}

\* section_visitor.visit(ast) is about to run on a unit with one long block
InitScan ==
    /\ lang = "c"
    /\ \E b \in ScanBlocks : source = Unit("none", "", "shallow", FuncBody(b))
    /\ hashseed = 0
    /\ pc = "sections"
    /\ result = NoResult
    /\ prev_result = NoResult
    /\ loops = <<>>
    /\ current_depth = 0
    /\ sections = <<>>
    /\ todo = TopCompounds(source.ast)
    /\ current_batch = <<>>
    /\ i = 0
    /\ j = 0
    /\ group = <<>>
    /\ combined_read = {}
    /\ combined_written = {}
    /\ ValidatorIdle
    /\ WorkflowIdle
    /\ code = <<>>

SpecScan == InitScan /\ [][NextSections]_vars

\* the candidate group is the statements number i+1 to j of the block
GroupIsRun == group = SubSeq(current_batch, i + 1, j)

\* the closed group is the statements that end at number j, and none that
\* follows could have joined it
ClosedIsMaximal ==
    /\ group = SubSeq(current_batch, j - Len(group) + 1, j)
    /\ \/ j = Len(current_batch)
       \/ ~PairwiseAccepts(group, current_batch[j + 1])

-----------------------------------------------------------------------------
(* Reduction candidates of a loop body *)

\* the operators a loop record holds for variable v
RecordedOps(loop, v) ==
    {loop.potential_reductions[m][2] :
        m \in {n \in DOMAIN loop.potential_reductions : loop.potential_reductions[n][1] = v}}

\* the reduction clauses the suggested pragma holds for variable v
ClausesFor(loop, v) ==
    {m \in DOMAIN ReductionClauses(loop) : ReductionClauses(loop)[m][2] = v}

\* C17: in every loop record each variable has at most one recorded
\* reduction operator, and the suggested pragma at most one reduction clause
\* for it, whatever operators the body applies to the variable.
C17_OneOperatorPerVariable ==
    (Analysed /\ lang = "c") =>
        \A k \in DOMAIN loops : \A v \in ReductionVars(loops[k]) :
            /\ Cardinality(RecordedOps(loops[k], v)) <= 1
            /\ Cardinality(ClausesFor(loops[k], v)) <= 1

\* v = v op e  with op= one of the operators of line 151
IsSelfAssign(node) ==
    /\ node.kind = "Assignment"
    /\ node.op = OpAssign
    /\ node.kids[1].kind = "ID"
    /\ node.kids[2].kind = "BinaryOp"
    /\ node.kids[2].kids[1].kind = "ID"
    /\ node.kids[2].kids[1].name = node.kids[1].name
    /\ (node.kids[2].op \o OpAssign) \in ReductionOps

RECURSIVE CompoundForm(_)
\* the tree with every  v = v op e  written  v op= e
CompoundForm(node) ==
    IF IsSelfAssign(node)
    THEN [node EXCEPT !.op = node.kids[2].op \o OpAssign,
                      !.kids = <<node.kids[1], CompoundForm(node.kids[2].kids[2])>>]
    ELSE [node EXCEPT !.kids = [m \in DOMAIN node.kids |-> CompoundForm(node.kids[m])]]

\* C18: a loop whose body holds  v = v op e  gets the reduction entries
\* (variable and recorded operator) and the reduction clauses of the same
\* loop written with  v op= e, and every recorded operator is one of the
\* operators accepted for compound assignments.
C18_SelfAssignLikeCompound ==
    (Analysed /\ lang = "c") =>
        \A k \in DOMAIN loops :
            LET twin == LoopInfo(CompoundForm(ForNodes(source.ast)[k]), loops[k].depth, hashseed)
            IN /\ SeqToSet(loops[k].potential_reductions) = SeqToSet(twin.potential_reductions)
               /\ SeqToSet(ReductionClauses(loops[k])) = SeqToSet(ReductionClauses(twin))
               /\ \A m \in DOMAIN loops[k].potential_reductions :
                      (Remove(loops[k].potential_reductions[m][2], "=") \o OpAssign) \in ReductionOps

-----------------------------------------------------------------------------
(* Loop targets of the Python analysis *)

\* the elements of a tuple target that are plain names, in order
NameElements(target) ==
    LET names == SelectSeq(target.kids, LAMBDA e : e.kind = "PyName")
    IN [k \in DOMAIN names |-> names[k].name]

\* C19: for every for statement of a unit the analysis returns a report, and
\* the binding of the loop record is the name of a single-name target, the
\* plain-name elements, in order, of a tuple target that has some, and
\* 'complex_target' for every other target, a tuple without any plain-name
\* element included (never an empty binding).
C19_TargetBindingCases ==
    (pc = "done" /\ lang = "python" /\ source.defect = "none"
        /\ ForNodes(source.ast) # <<>>) =>
        /\ result.kind = "report"
        /\ Len(loops) = Len(ForNodes(source.ast))
        /\ \A k \in DOMAIN loops :
              LET target == ForNodes(source.ast)[k].kids[1]
                  var == loops[k].target_var
              IN /\ target.kind = "PyName" => var = target.name
                 /\ (target.kind = "PyTuple" /\ NameElements(target) # <<>>) =>
                        var = Join(NameElements(target), <<",", " ">>)
                 /\ (target.kind = "PyTuple" /\ NameElements(target) = <<>>) =>
                        var = ComplexTarget
                 /\ target.kind \notin {"PyName", "PyTuple"} => var = ComplexTarget
                 /\ var # <<>>

-----------------------------------------------------------------------------
(* Usage records of assignments *)

RECURSIVE ArrayBase(_)
\* the identifier a subscript expression is built on
ArrayBase(node) == IF node.kind = "ArrayRef" THEN ArrayBase(node.kids[1]) ELSE node

\* the block item the k-th usage record was made from
ItemOf(k) == Head(todo).kids[k]

\* C20: the usage record of an assignment to a subscript expression on an
\* identifier, of any depth, has the array identifier in written and the
\* array identifier and the identifiers of the subscripts in read; the usage
\* record of an assignment to a plain name has the name in written, and in
\* read only if the right side names it.
C20_AssignmentTargetsRecorded ==
    pc \in {"outer", "inner"} =>
        \A k \in DOMAIN current_batch :
            LET lvalue == ItemOf(k).kids[1]
                rvalue == ItemOf(k).kids[2]
            IN ItemOf(k).kind = "Assignment" =>
                /\ (lvalue.kind = "ArrayRef" /\ ArrayBase(lvalue).kind = "ID") =>
                      /\ ArrayBase(lvalue).name \in current_batch[k].written
                      /\ SeqToSet(IDsOf(lvalue)) \subseteq current_batch[k].read
                /\ lvalue.kind = "ID" =>
                      /\ lvalue.name \in current_batch[k].written
                      /\ lvalue.name \in current_batch[k].read
                            => lvalue.name \in SeqToSet(IDsOf(rvalue))

-----------------------------------------------------------------------------
(* Termination of the analysis *)

\* C21: during the grouper's scan of a block the inner index never exceeds
\* the number of statements of the block, every outer iteration leaves the
\* outer index strictly greater than it found it, and every run on a source
\* the parser accepted ends with a report (or the no-loops result), never
\* with an exception.
C21_EveryRunEndsWithReport ==
    /\ [](pc \in {"outer", "inner"} => (i <= j /\ j <= Len(current_batch)))
    /\ [][(pc = "inner" /\ pc' = "outer") => i' > i]_vars
    /\ [](pc = "done" /\ ~ParserRejects => result.kind \in {"report", "empty"})

-----------------------------------------------------------------------------
(* The workflow of graphs/workflow.py *)
(*                                                                         *)
(* agent_state is AgentState as a function from the keys that are set to   *)
(* their values; a node returns a partial dict that the graph merges into  *)
(* it.  A node call that raises ends the run in "raised".  What an agent   *)
(* returns comes from outside this repository: the object either carries   *)
(* the attribute the node reads or it does not (AttributeError).  trace    *)
(* records the node calls of the run with the keys handed to the agent.    *)

\* dict.get(key, default)
Get(st, key, default) == IF key \in DOMAIN st THEN st[key] ELSE default

\* the graph merges what a node returned into the state
Update(st, upd) ==
    [k \in DOMAIN st \cup DOMAIN upd |-> IF k \in DOMAIN upd THEN upd[k] ELSE st[k]]

\* getattr(obj, name): is the attribute there
HasAttr(obj, name) == name \in DOMAIN obj

Called(name, keys) == [node |-> name, input |-> keys]

\* programs the source file and the implementers' answers stand for
ProgramA == Program(TRUE, TRUE, 0, LineA \o <<"\n">>, <<>>)
ModifiedCodes ==
    { ProgramA,
      Program(TRUE, TRUE, 0, LineB \o <<"\n">>, <<>>),
      Program(TRUE, TRUE, 0, ValidationPassed \o <<"\n">>, <<>>),
      Program(FALSE, TRUE, 0, <<>>, GccDiagnostic),
      Program(TRUE, FALSE, 0, <<>>, <<>>) }

\* what analyze_code_ast / analyze_c_code_ast hand back, or that they raise
AstReports == {"report", "empty", "parse_error", "raised"}

\* analyser.py lines 31-33, c_analyser.py lines 36-38: the declared fields of
\* the analysis agents' answer, and an answer that also carries .output
AnalysisOutputs ==
    {[summary |-> "text", candidates |-> c] : c \in {"none", "some"}}
    \cup {[summary |-> "text", candidates |-> c, output |-> c] : c \in {"none", "some"}}

\* implementer.py lines 12-15, c_implementer.py lines 21-24: the declared
\* fields of the implementers' answer, and an answer that also carries
\* .modified_output
ImplementerOutputs ==
    {[modified_code |-> m, parallelizable |-> TRUE] : m \in ModifiedCodes}
    \cup {[modified_code |-> m, parallelizable |-> TRUE, modified_output |-> m] :
             m \in ModifiedCodes}

\* validator.py lines 5-6: the declared field of the Python validator's
\* answer, and an answer that also carries .validation_script_code; the
\* script is given by what it judges and what it prints when it is run
PyScripts ==
    { [judged |-> TRUE, printed |-> WriteLine(<<>>, ValidationPassed)],
      [judged |-> TRUE, printed |-> WriteLine(<<>>, MsgMetrics)],
      [judged |-> FALSE, printed |-> WriteLine(<<>>, MsgValidationFailed)] }
ValidationScripts ==
    {[script |-> s] : s \in PyScripts}
    \cup {[script |-> s, validation_script_code |-> s] : s \in PyScripts}

\* lines 103-104, 181-182: str(e) of the TimeoutExpired subprocess.run raises
TimedOutText == <<"t", "i", "m", "e", "d", " ", "o", "u", "t">>

\* the router that gives up after the first failed validation
validation_router_once(st, implementer) ==
    IF Get(st, "is_valid", FALSE) THEN "END"
    ELSE IF Get(st, "iterations", 0) > 0 THEN "END"
    ELSE implementer

\* lines 200-215: py_validation_router, c_validation_router
validation_router(st, implementer) ==
    IF Get(st, "is_valid", FALSE) THEN "END"
    ELSE IF Get(st, "iterations", 0) > 3 THEN "END"
    ELSE implementer

MainVars == <<mpc, fs>>
ScriptIdleVars == <<original, parallel, vpc, output>>

\* the entry point that knows one pipeline only
language_router_python_only ==
    /\ current_node = "entry"
    /\ current_node' = "py_analyzer"
    /\ UNCHANGED <<agent_state, trace, MainVars, ValidatorVars, AnalysisState>>

\* lines 192-197, 240-246
language_router ==
    /\ current_node = "entry"
    /\ current_node' = IF Get(agent_state, "language", "python") = "c"
                       THEN "c_analyzer" ELSE "py_analyzer"
    /\ UNCHANGED <<agent_state, trace, MainVars, ValidatorVars, AnalysisState>>

\* lines 38-46 and 114-122, with the edge of line 249 / 261
analyzer_node(name, implementer) ==
    /\ current_node = name
    /\ trace' = Append(trace, Called(name, {"source_code", "ast_report"}))
    /\ \E ast_report \in AstReports, answer \in AnalysisOutputs :
          IF ast_report = "raised" \/ ~HasAttr(answer, "output")
          THEN /\ current_node' = "raised"
               /\ UNCHANGED agent_state
          ELSE /\ agent_state' =
                    Update(agent_state,
                           [analysis_report |-> [ast |-> ast_report, agent |-> answer.output]])
               /\ current_node' = implementer
    /\ UNCHANGED <<MainVars, ValidatorVars, AnalysisState>>

py_analyzer_node == analyzer_node("py_analyzer", "py_implementer")

c_analyzer_node == analyzer_node("c_analyzer", "c_implementer")

\* lines 49-56 and 125-132, with the edge of line 250 / 262
implementer_node(name, validator) ==
    /\ current_node = name
    /\ trace' = Append(trace, Called(name, {"source_code", "analysis_report"}))
    /\ \E answer \in ImplementerOutputs :
          IF ~HasAttr(answer, "modified_output")
          THEN /\ current_node' = "raised"
               /\ UNCHANGED agent_state
          ELSE /\ agent_state' = Update(agent_state, [modified_code |-> answer.modified_output])
               /\ current_node' = validator
    /\ UNCHANGED <<MainVars, ValidatorVars, AnalysisState>>

py_implementer_node == implementer_node("py_implementer", "py_validator")

c_implementer_node == implementer_node("c_implementer", "c_validator")

\* lines 59-107, with the conditional edge of lines 251-258; the trace entry
\* keeps what the script itself judged
py_validator_node ==
    /\ current_node = "py_validator"
    /\ \E answer \in ValidationScripts, finishes \in BOOLEAN :
          IF ~HasAttr(answer, "validation_script_code")
          THEN /\ current_node' = "raised"
               /\ trace' = Append(trace, Called("py_validator", {"source_code", "modified_code"}))
               /\ UNCHANGED <<agent_state, original, parallel, output>>
          ELSE LET script == answer.validation_script_code
                   printed == IF finishes THEN script.printed \o <<"\n">> ELSE TimedOutText
                   upd == [validation_output |-> printed,
                           is_valid |-> finishes /\ IsSubstring(ValidationPassed, printed),
                           iterations |-> Get(agent_state, "iterations", 0) + 1]
               IN /\ agent_state' = Update(agent_state, upd)
                  /\ current_node' = validation_router(agent_state', "py_implementer")
                  /\ trace' = Append(trace,
                                     [node |-> "py_validator",
                                      input |-> {"source_code", "modified_code"},
                                      judged |-> finishes /\ script.judged])
                  /\ original' = agent_state.source_code
                  /\ parallel' = agent_state.modified_code
                  /\ output' = printed
    /\ UNCHANGED <<vpc, MainVars, AnalysisState>>

\* lines 135-177: c_validator_node writes original.c, parallel.c and the
\* script (the repository's script of c_validator_deterministic.py) and starts
\* it; lines 181-185 when subprocess.run raises instead
c_validator_node ==
    /\ current_node = "c_validator"
    /\ trace' = Append(trace, Called("c_validator", {"source_code", "modified_code"}))
    /\ original' = agent_state.source_code
    /\ parallel' = agent_state.modified_code
    /\ \E finishes \in BOOLEAN :
          IF finishes
          THEN /\ vpc' = "compile_original"
               /\ output' = <<>>
               /\ current_node' = "c_validator_run"
               /\ UNCHANGED agent_state
          ELSE /\ agent_state' =
                    Update(agent_state,
                           [validation_output |-> TimedOutText,
                            is_valid |-> FALSE,
                            iterations |-> Get(agent_state, "iterations", 0) + 1])
               /\ current_node' = validation_router(agent_state', "c_implementer")
               /\ output' = TimedOutText
               /\ UNCHANGED vpc
    /\ UNCHANGED <<MainVars, AnalysisState>>

\* lines 179-185, with the conditional edge of lines 263-270
c_validator_node_return ==
    /\ current_node = "c_validator_run"
    /\ vpc = "finished"
    /\ agent_state' =
          Update(agent_state,
                 [validation_output |-> output \o <<"\n">>,
                  is_valid |-> passed,
                  iterations |-> Get(agent_state, "iterations", 0) + 1])
    /\ current_node' = validation_router(agent_state', "c_implementer")
    /\ vpc' = "idle"
    /\ UNCHANGED <<trace, original, parallel, output, MainVars, AnalysisState>>

\* main.py lines 154-159
initial_state(language) ==
    [source_code |-> ProgramA, language |-> language, iterations |-> 0, messages |-> <<>>]

\* what app.invoke may be handed as language
Languages == {"c", "python", "cpp"}

\* the analysis and the script are not running
AnalysisIdle ==
    /\ lang = "c"
    /\ source = Unit("none", "", "shallow", None)
    /\ hashseed = 0
    /\ pc = "idle"
    /\ result = NoResult
    /\ prev_result = NoResult
    /\ loops = <<>>
    /\ current_depth = 0
    /\ sections = <<>>
    /\ todo = <<>>
    /\ current_batch = <<>>
    /\ i = 0
    /\ j = 0
    /\ group = <<>>
    /\ combined_read = {}
    /\ combined_written = {}
    /\ code = <<>>

\* app.invoke(initial_state) starts
InitWorkflow ==
    /\ AnalysisIdle
    /\ ValidatorIdle
    /\ current_node = "entry"
    /\ \E l \in Languages : agent_state = initial_state(l)
    /\ trace = <<>>
    /\ mpc = "idle"
    /\ fs = NoFiles

NextWorkflow ==
    \/ language_router
    \/ py_analyzer_node
    \/ py_implementer_node
    \/ py_validator_node
    \/ c_analyzer_node
    \/ c_implementer_node
    \/ c_validator_node
    \/ CompileOriginal
    \/ CompileParallel
    \/ RunOriginal
    \/ RunParallel
    \/ CompareResults
    \/ c_validator_node_return

SpecWorkflow == InitWorkflow /\ [][NextWorkflow]_vars

-----------------------------------------------------------------------------
(* The route of a workflow run *)

AnalyzerNodes == {"py_analyzer", "c_analyzer"}
ImplementerNodes == {"py_implementer", "c_implementer"}
ValidatorNodes == {"py_validator", "c_validator"}

\* the positions of the trace at which a node of the set was called
CallsOf(nodes) == {k \in DOMAIN trace : trace[k].node \in nodes}

\* the analysis step reported a loop or group, or the agent a candidate
FoundParallelizable ==
    /\ "analysis_report" \in DOMAIN agent_state
    /\ \/ agent_state.analysis_report.ast = "report"
       \/ agent_state.analysis_report.agent = "some"

SpecWorkflowFair == SpecWorkflow /\ WF_vars(NextWorkflow)

\* the validator calls that have returned
ValidatorRuns ==
    Cardinality(CallsOf(ValidatorNodes))
    - (IF \/ current_node = "c_validator_run"
          \/ current_node = "raised" /\ trace[Len(trace)].node \in ValidatorNodes
       THEN 1 ELSE 0)

\* C24: a run started with iterations = 0 calls the validator at most 4 times
\* and the implementer at most 4 times, iterations counts the validator calls
\* that returned, the run is at END exactly after the first validator call
\* that set is_valid or after the 4th, and every run ends (at END, or in the
\* exception of a node call that did not return).
C24_AtMostFourRounds ==
    /\ [](/\ Cardinality(CallsOf(ValidatorNodes)) <= 4
          /\ Cardinality(CallsOf(ImplementerNodes)) <= 4
          /\ Get(agent_state, "iterations", 0) = ValidatorRuns
          /\ current_node = "END" =>
                /\ ValidatorRuns >= 1
                /\ agent_state.is_valid \/ ValidatorRuns = 4
          /\ (ValidatorRuns >= 1 /\ (agent_state.is_valid \/ ValidatorRuns = 4)) =>
                current_node \in {"END", "raised"})
    /\ <>(current_node \in {"END", "raised"})

\* four failed validations, then END
C24_Witness ==
    /\ current_node = "END"
    /\ ~agent_state.is_valid
    /\ agent_state.iterations = 4
    /\ Cardinality(CallsOf(ValidatorNodes)) = 4
    /\ Cardinality(CallsOf(ImplementerNodes)) = 4

CNodes == {"c_analyzer", "c_implementer", "c_validator"}
PyNodes == {"py_analyzer", "py_implementer", "py_validator"}

\* C25: in every run the analyzer is called exactly once, as the first node;
\* every validator call comes right after an implementer call; and a run
\* whose language is 'c' calls only C nodes, a run with any other language
\* value only Python nodes.
C25_OnePipelinePerRun ==
    /\ Cardinality(CallsOf(AnalyzerNodes)) <= 1
    /\ trace # <<>> => trace[1].node \in AnalyzerNodes
    /\ current_node \notin {"entry"} \cup AnalyzerNodes => trace # <<>>
    /\ \A k \in CallsOf(ValidatorNodes) : k > 1 /\ trace[k - 1].node \in ImplementerNodes
    /\ \A k \in DOMAIN trace :
          IF agent_state.language = "c" THEN trace[k].node \in CNodes
          ELSE trace[k].node \in PyNodes
    /\ current_node \in
          IF agent_state.language = "c"
          THEN CNodes \cup {"entry", "END", "raised", "c_validator_run"}
          ELSE PyNodes \cup {"entry", "END", "raised"}

\* a run with a language value that is neither 'c' nor 'python' has gone
\* through two rounds of the Python pipeline
C25_Witness ==
    /\ agent_state.language = "cpp"
    /\ current_node = "END"
    /\ Len(trace) = 5
    /\ trace[5].node = "py_validator"

\* the last validation script run took its own pass branch
\* (c_validator_deterministic.py line 98; the Python script's own verdict)
ScriptJudgedEqual ==
    IF agent_state.language = "c"
    THEN /\ RunsClean(original)
         /\ RunsClean(parallel)
         /\ ComparedLines(original.stdout) = ComparedLines(parallel.stdout)
    ELSE trace[Len(trace)].judged

-----------------------------------------------------------------------------
(* Declarations in the grouper *)

DeclStmts ==
    { Decl(<<"a">>, FuncCall(<<"f">>, None)),
      Decl(<<"b">>, FuncCall(<<"g">>, ExprList(<<ID(<<"a">>)>>))),
      Decl(<<"d">>, ID(<<"a">>)),
      Decl(<<"d">>, None),
      Assignment(OpAssign, ID(<<"a">>), Constant(<<"1">>)),
      Assignment(OpAssign, ID(<<"c">>), ID(<<"d">>)),
      Assignment(OpAssign, ID(<<"c">>), ID(<<"a">>)) }

DeclBlocks == UNION {[1..n -> DeclStmts] : n \in 1..MaxStmts}

\* section_visitor.visit(ast) is about to run on a unit with declarations
InitDecls ==
    /\ lang = "c"
    /\ \E b \in DeclBlocks : source = Unit("none", "", "shallow", FuncBody(b))
    /\ hashseed = 0
    /\ pc = "sections"
    /\ result = NoResult
    /\ prev_result = NoResult
    /\ loops = <<>>
    /\ current_depth = 0
    /\ sections = <<>>
    /\ todo = TopCompounds(source.ast)
    /\ current_batch = <<>>
    /\ i = 0
    /\ j = 0
    /\ group = <<>>
    /\ combined_read = {}
    /\ combined_written = {}
    /\ ValidatorIdle
    /\ WorkflowIdle
    /\ code = <<>>

SpecDecls == InitDecls /\ [][NextSections]_vars

\* the block item a member of the group was made from
NodeAt(member) ==
    CHOOSE n \in SeqToSet(Head(todo).kids) : n.line = member.line

\* the variable a statement defines: the target of an assignment to a plain
\* name, the name of a declaration with an initialiser
Defines(stmt) ==
    IF stmt.kind = "Assignment" /\ stmt.kids[1].kind = "ID" THEN {stmt.kids[1].name}
    ELSE IF stmt.kind = "Decl" /\ stmt.kids[1].kind # "None" THEN {stmt.name}
    ELSE {}

\* C27: no emitted group holds two statements of which the later reads a
\* variable that the earlier defines, by an assignment or by a declaration
\* with an initialiser.
C27_NoDefThenUseInGroup ==
    (JustClosed /\ Emitted(group)) =>
        \A a, b \in DOMAIN group :
            a < b => Defines(NodeAt(group[a])) \cap group[b].read = {}

-----------------------------------------------------------------------------
(* main() of main.py, from the creation of the temp directory on *)
(*                                                                         *)
(* fs holds what the output path and the '.failed' path contain ("absent", *)
(* "old" for what was there before the run, "modified_code" for            *)
(* result["modified_code"]) and whether the temp directory exists.         *)

\* the unverified code goes to the output path itself
SaveUnverifiedCode_ToOutput ==
    /\ mpc = "result"
    /\ current_node = "END"
    /\ ~Get(agent_state, "is_valid", FALSE)
    /\ fs' = [fs EXCEPT !.output_path = "modified_code"]
    /\ mpc' = "cleanup"
    /\ UNCHANGED <<current_node, agent_state, trace, ValidatorVars, AnalysisState>>

\* lines 161-166: an old temp directory is removed, a new one made
CreateTempEnvironment ==
    /\ mpc = "start"
    /\ fs' = [fs EXCEPT !.temp_dir = TRUE]
    /\ mpc' = "invoke"
    /\ UNCHANGED <<current_node, agent_state, trace, ValidatorVars, AnalysisState>>

\* line 171: app.invoke(initial_state) starts the graph
InvokeApp ==
    /\ mpc = "invoke"
    /\ current_node' = "entry"
    /\ mpc' = "result"
    /\ UNCHANGED <<fs, agent_state, trace, ValidatorVars, AnalysisState>>

\* lines 172-176: the workflow raised; sys.exit(1) inside the outer try
WorkflowFailed ==
    /\ mpc = "result"
    /\ current_node = "raised"
    /\ mpc' = "cleanup"
    /\ UNCHANGED <<fs, current_node, agent_state, trace, ValidatorVars, AnalysisState>>

\* lines 180-210: the result is valid; the write may fail with an IOError,
\* which is logged
SaveModifiedCode ==
    /\ mpc = "result"
    /\ current_node = "END"
    /\ Get(agent_state, "is_valid", FALSE)
    /\ \E written \in BOOLEAN :
          fs' = IF written THEN [fs EXCEPT !.output_path = "modified_code"] ELSE fs
    /\ mpc' = "cleanup"
    /\ UNCHANGED <<current_node, agent_state, trace, ValidatorVars, AnalysisState>>

\* lines 211-220: the result is not valid; a failing write leaves main()
\* through the finally clause
SaveUnverifiedCode ==
    /\ mpc = "result"
    /\ current_node = "END"
    /\ ~Get(agent_state, "is_valid", FALSE)
    /\ \E written \in BOOLEAN :
          fs' = IF written THEN [fs EXCEPT !.failed_path = "modified_code"] ELSE fs
    /\ mpc' = "cleanup"
    /\ UNCHANGED <<current_node, agent_state, trace, ValidatorVars, AnalysisState>>

\* lines 222-229: the finally clause
Cleanup ==
    /\ mpc = "cleanup"
    /\ fs' = [fs EXCEPT !.temp_dir = FALSE]
    /\ mpc' = "exited"
    /\ UNCHANGED <<current_node, agent_state, trace, ValidatorVars, AnalysisState>>

\* main() has read the source and built initial_state (lines 117-159)
InitMain ==
    /\ AnalysisIdle
    /\ ValidatorIdle
    /\ current_node = "idle"
    /\ \E l \in {"python", "c"} : agent_state = initial_state(l)
    /\ trace = <<>>
    /\ mpc = "start"
    /\ fs \in [output_path : {"absent", "old"}, failed_path : {"absent", "old"},
               temp_dir : BOOLEAN]

NextMain ==
    \/ CreateTempEnvironment
    \/ InvokeApp
    \/ NextWorkflow
    \/ WorkflowFailed
    \/ SaveModifiedCode
    \/ SaveUnverifiedCode
    \/ Cleanup

SpecMain == InitMain /\ [][NextMain]_vars

\* the workflow's result is valid
ResultValid == current_node = "END" /\ Get(agent_state, "is_valid", FALSE)

-----------------------------------------------------------------------------
(* preprocess_c_code, on the text *)
(*                                                                         *)
(* The source is a text over a few characters: "f" stands for the keyword  *)
(* of a loop, the others are what the patterns of lines 20-43 look for.    *)
(* No text of the universe holds a #define, so the macro table of lines    *)
(* 27-38 is empty and the macro step leaves the text as it is.             *)

\* longest source text
MaxText == 6

TextChars == {"f", "/", "*", "#", " ", "\n"}

Texts == UNION {[1..n -> TextChars] : n \in 0..MaxText}

RECURSIVE ToEndOfLine(_)
\* what is left of the text from the end of its first line on
ToEndOfLine(s) ==
    IF s = <<>> \/ s[1] = "\n" THEN s ELSE ToEndOfLine(Tail(s))

RECURSIVE RemoveLineComments(_)
\* line 20: re.sub(r'//.*?$', '', ..., flags=re.MULTILINE)
RemoveLineComments(s) ==
    IF s = <<>> THEN <<>>
    ELSE IF Len(s) >= 2 /\ s[1] = "/" /\ s[2] = "/"
         THEN RemoveLineComments(ToEndOfLine(s))
         ELSE <<s[1]>> \o RemoveLineComments(Tail(s))

\* the places after position 2 where "*/" starts
CommentEnds(s) == {k \in 3..(Len(s) - 1) : s[k] = "*" /\ s[k + 1] = "/"}

Min(S) == CHOOSE m \in S : \A n \in S : m <= n

RECURSIVE RemoveBlockComments(_)
\* line 23: re.sub(r'/\*.*?\*/', '', ..., flags=re.DOTALL)
RemoveBlockComments(s) ==
    IF s = <<>> THEN <<>>
    ELSE IF Len(s) >= 2 /\ s[1] = "/" /\ s[2] = "*" /\ CommentEnds(s) # {}
         THEN RemoveBlockComments(SubSeq(s, Min(CommentEnds(s)) + 2, Len(s)))
         ELSE <<s[1]>> \o RemoveBlockComments(Tail(s))

RECURSIVE SkipSpace(_)
\* the text after its leading white space (\s*)
SkipSpace(s) ==
    IF s # <<>> /\ s[1] \in {" ", "\n"} THEN SkipSpace(Tail(s)) ELSE s

RECURSIVE RemoveDirectives(_, _)
\* line 43: re.sub(r'^\s*#.*?$', '', ..., flags=re.MULTILINE); at_start says
\* that the text begins at the start of a line
RemoveDirectives(s, at_start) ==
    IF s = <<>> THEN <<>>
    ELSE IF at_start /\ SkipSpace(s) # <<>> /\ SkipSpace(s)[1] = "#"
         THEN RemoveDirectives(ToEndOfLine(SkipSpace(s)), FALSE)
         ELSE <<s[1]>> \o RemoveDirectives(Tail(s), s[1] = "\n")

PreprocessFrame ==
    <<lang, source, hashseed, result, prev_result, loops, current_depth, sections, todo,
      current_batch, i, j, group, combined_read, combined_written, ValidatorVars,
      WorkflowVars>>

\* line 20
SubLineComments ==
    /\ pc = "line_comments"
    /\ code' = RemoveLineComments(source)
    /\ pc' = "block_comments"
    /\ UNCHANGED PreprocessFrame

\* line 23
SubBlockComments ==
    /\ pc = "block_comments"
    /\ code' = RemoveBlockComments(code)
    /\ pc' = "macros"
    /\ UNCHANGED PreprocessFrame

\* lines 27-38, with no #define in the text
ExpandMacros ==
    /\ pc = "macros"
    /\ code' = code
    /\ pc' = "directives"
    /\ UNCHANGED PreprocessFrame

\* lines 43-45
SubDirectives ==
    /\ pc = "directives"
    /\ code' = RemoveDirectives(code, TRUE)
    /\ pc' = "preprocessed"
    /\ UNCHANGED PreprocessFrame

\* preprocess_c_code(source_code) is called (line 197)
InitPreprocess ==
    /\ lang = "c"
    /\ source \in Texts
    /\ hashseed = 0
    /\ pc = "line_comments"
    /\ result = NoResult
    /\ prev_result = NoResult
    /\ loops = <<>>
    /\ current_depth = 0
    /\ sections = <<>>
    /\ todo = <<>>
    /\ current_batch = <<>>
    /\ i = 0
    /\ j = 0
    /\ group = <<>>
    /\ combined_read = {}
    /\ combined_written = {}
    /\ ValidatorIdle
    /\ WorkflowIdle
    /\ code = <<>>

NextPreprocess ==
    \/ SubLineComments
    \/ SubBlockComments
    \/ ExpandMacros
    \/ SubDirectives

SpecPreprocess == InitPreprocess /\ [][NextPreprocess]_vars

\* the lines (1-based) on which the loop keywords of a text stand, in order:
\* the line numbers the parser gives the loops of that text
LoopLinesOf(s) ==
    LET at == SelectSeq([k \in DOMAIN s |-> k], LAMBDA k : s[k] = "f")
    IN [m \in DOMAIN at |->
            1 + Cardinality({k \in 1..at[m] : s[k] = "\n"})]

LineBreaks(s) == Cardinality({k \in DOMAIN s : s[k] = "\n"})

\* C29: the preprocessed text has the line breaks of the source, and when no
\* loop keyword stood in a removed part, every loop stands on the line it has
\* in the source, so that the report's line numbers are lines of the source.
C29_PreprocessKeepsLines ==
    pc = "preprocessed" =>
        /\ LineBreaks(code) = LineBreaks(source)
        /\ Len(LoopLinesOf(code)) = Len(LoopLinesOf(source))
              => LoopLinesOf(code) = LoopLinesOf(source)
-----------------------------------------------------------------------------
(* The shared-variables line of the C report *)

\* the names the 'Potential Shared Variables' line of loop n shows
SharedShown(n) ==
    LET ls == SelectSeq(result.lines, LAMBDA l : l.kind = "shared" /\ l.loop = n)
    IN IF ls = <<>> THEN <<>> ELSE ls[1].items

\* C30: the shared-variables line of a loop shows exactly the names of the
\* loop's potential_shared_vars that are neither the loop's iterator
\* variable nor in its private list.
C30_SharedLineExact ==
    (Analysed /\ lang = "c" /\ result.kind = "report") =>
        \A n \in DOMAIN loops :
            SharedShown(n) =
                SelectSeq(loops[n].potential_shared_vars,
                          LAMBDA v : /\ v # loops[n].init_var
                                     /\ v \notin SeqToSet(loops[n].potential_private_vars))

=============================================================================
